---- MODULE Spec2Model ----
(***************************************************************************)
(* Model of energy_meter_setup_tool.py: one run of main() against a meter   *)
(* on a modbus bus.  The program is sequential; pc is its position, bus is  *)
(* the list of requests it has put on the bus, and the meter answers each   *)
(* request with an error or with register words drawn from small sample     *)
(* sets.                                                                    *)
(*                                                                          *)
(* Representation of Python values:                                         *)
(*   - a float is carried as the exact number of 1/128 units it denotes     *)
(*     (every sampled register pattern is such a multiple);                 *)
(*   - None is "None" for strings, 0 for args.set_unit_id (address_limit    *)
(*     only admits 1..255) and "" for args.set_serial;                      *)
(*   - args.set_relay's default False is the string "False".                *)
(*                                                                          *)
(* A second specification, SpecReq, is one call of modbus_req with a        *)
(* register name and a payload drawn from sample sets; req holds the        *)
(* arguments of the call and reading what it returned.  A third one,        *)
(* SpecCodec, applies the value codec to sampled inputs; arg is the input   *)
(* and result the list of the values the functions returned.                *)
(* A fourth one, SpecVariant, is one run of the main() of an older variant, *)
(* meter_setuptool.py or meter_setuptools.py.                               *)
(***************************************************************************)
EXTENDS Integers, Sequences, FiniteSets, TLC

VARIABLES args, pc, status, fatal, bus, sessions, client, dev_relay,
          voltage, set_state, cur_state, serial_no, key, relay_result,
          baudrate, read_only, unit_id, depth, req, reading, arg, result

vars == <<args, pc, status, fatal, bus, sessions, client, dev_relay,
          voltage, set_state, cur_state, serial_no, key, relay_result,
          baudrate, read_only, unit_id, depth, req, reading, arg, result>>

-----------------------------------------------------------------------------
(* Integer helpers for the bit operations of the source.                    *)

RECURSIVE Pow2(_)
Pow2(n) == IF n = 0 THEN 1 ELSE 2 * Pow2(n - 1)

\* x >> n on a non-negative Python int
ShiftRight(x, n) == x \div Pow2(n)

\* x & y on non-negative Python ints
RECURSIVE BitAnd(_, _)
BitAnd(x, y) ==
  IF x = 0 \/ y = 0 THEN 0
  ELSE (IF x % 2 = 1 /\ y % 2 = 1 THEN 1 ELSE 0) + 2 * BitAnd(x \div 2, y \div 2)

\* '{0:016b}'.format(i) / format(i, '016b'): base-2 digits, zero-padded to 16
RECURSIVE Format016b(_, _)
Format016b(i, width) ==
  IF i < 2 /\ width <= 1 THEN (IF i = 1 THEN "1" ELSE "0")
  ELSE Format016b(i \div 2, width - 1) \o (IF i % 2 = 1 THEN "1" ELSE "0")

\* s[:n] on a Python string: the first n characters, or all of a shorter s
Prefix(s, n) == SubSeq(s, 1, IF Len(s) < n THEN Len(s) ELSE n)

\* int(s, base) on a string of digits
DigitValue(c) ==
  CASE c = "0" -> 0 [] c = "1" -> 1 [] c = "2" -> 2 [] c = "3" -> 3
    [] c = "4" -> 4 [] c = "5" -> 5 [] c = "6" -> 6 [] c = "7" -> 7
    [] c = "8" -> 8 [] c = "9" -> 9 [] c = "a" -> 10 [] c = "b" -> 11
    [] c = "c" -> 12 [] c = "d" -> 13 [] c = "e" -> 14 [] c = "f" -> 15

RECURSIVE ParseDigits(_, _)
ParseDigits(s, base) ==
  IF Len(s) = 0 THEN 0
  ELSE ParseDigits(SubSeq(s, 1, Len(s) - 1), base) * base
       + DigitValue(SubSeq(s, Len(s), Len(s)))

\* floor(log2(n)) for n >= 1
RECURSIVE Log2(_)
Log2(n) == IF n < 2 THEN 0 ELSE 1 + Log2(n \div 2)

-----------------------------------------------------------------------------
(* The value codec, lines 29-76.                                            *)

\* ''.join(['{0:016b}'.format(i) for i in value_list]), lines 50 and 71
RECURSIVE JoinWords(_)
JoinWords(value_list) ==
  IF value_list = <<>> THEN ""
  ELSE Format016b(Head(value_list), 16) \o JoinWords(Tail(value_list))

\* [int(bin_value[:16], 2), int(bin_value[16:], 2)], lines 43-45 and 58-60
SplitWords(bin_value) ==
  <<ParseDigits(Prefix(bin_value, 16), 2),
    ParseDigits(SubSeq(bin_value, 17, Len(bin_value)), 2)>>

\* A Python float holding a float32 value: kind "finite" is the number
\* (-1)^neg * sig * 2^exp with sig odd, or sig = 0 and exp = 0 for the two
\* zeros; kind "inf" is an infinity; kind "nan" is not a number.
RECURSIVE Float(_, _, _)
Float(neg, sig, exp) ==
  IF sig = 0 THEN [kind |-> "finite", neg |-> neg, sig |-> 0, exp |-> 0]
  ELSE IF sig % 2 = 0 THEN Float(neg, sig \div 2, exp + 1)
  ELSE [kind |-> "finite", neg |-> neg, sig |-> sig, exp |-> exp]

Infinity(neg) == [kind |-> "inf", neg |-> neg, sig |-> 0, exp |-> 0]
NaN == [kind |-> "nan", neg |-> FALSE, sig |-> 0, exp |-> 0]

\* the float a non-negative Python int below 2^24 is packed as
FloatOfInt(n) == Float(FALSE, n, 0)

\* struct.unpack('>f', struct.pack('>L', int(bin_float, 2)))[0], lines
\* 32-33: sign, 8-bit exponent and 23-bit fraction of the 32 digits
unpack_f(bin_float) ==
  LET neg == SubSeq(bin_float, 1, 1) = "1"
      e == ParseDigits(SubSeq(bin_float, 2, 9), 2)
      frac == ParseDigits(SubSeq(bin_float, 10, 32), 2)
  IN IF e = 255 THEN (IF frac = 0 THEN Infinity(neg) ELSE NaN)
     ELSE IF e = 0 THEN Float(neg, frac, -149)
     ELSE Float(neg, 8388608 + frac, e - 150)

\* format(struct.unpack('>L', struct.pack('>f', float_value))[0], '032b'),
\* lines 39-41, for a float that is a float32 value
pack_f(float_value) ==
  LET s == IF float_value.neg THEN "1" ELSE "0"
      top == Log2(float_value.sig)
      e == float_value.exp + top
  IN IF float_value.kind = "inf" THEN s \o "11111111" \o Format016b(0, 23)
     ELSE IF float_value.kind = "nan" THEN "011111111" \o Format016b(4194304, 23)
     ELSE IF float_value.sig = 0 THEN s \o Format016b(0, 31)
     ELSE IF e >= -126
     THEN s \o Format016b(e + 127, 8)
            \o Format016b(float_value.sig * Pow2(23 - top) - 8388608, 23)
     ELSE s \o "00000000" \o Format016b(float_value.sig * Pow2(float_value.exp + 149), 23)

\* the words taken low half first
ieee754_low_first(value_list) ==
  unpack_f(Format016b(BitAnd(value_list[2], 65535), 16)
           \o Format016b(BitAnd(value_list[1], 65535), 16))

\* ieee754(value_list), lines 29-33: the two words, each masked to 16
\* bits, are the high and low half of a big-endian IEEE-754 single
ieee754(value_list) ==
  unpack_f(Format016b(BitAnd(value_list[1], 65535), 16)
           \o Format016b(BitAnd(value_list[2], 65535), 16))

\* reverse_ieee754(float_value), lines 36-45
reverse_ieee754(float_value) == SplitWords(pack_f(float_value))

\* a finite float in 1/128 units, the form in which the program state
\* carries the floats it has read (every sampled answer is a multiple of
\* 1/128)
Units128(float_value) ==
  LET sh == float_value.exp + 7
      mag == IF sh >= 0 THEN float_value.sig * Pow2(sh)
             ELSE IF sh < -30 THEN 0 ELSE float_value.sig \div Pow2(-sh)
  IN IF float_value.neg THEN -mag ELSE mag

\* u32(value_list): int() of the joined 16-digit renderings of the words
u32(value_list) == ParseDigits(JoinWords(value_list), 2)

\* the two halves returned low half first
reverse_u32_low_first(integer_value) ==
  LET words == SplitWords(Format016b(integer_value, 32))
  IN <<words[2], words[1]>>

\* reverse_u32(integer_value): format(n, '032b') cut into two halves
reverse_u32(integer_value) == SplitWords(Format016b(integer_value, 32))

\* u16(value_list)
u16(value_list) == value_list[1]

\* the rendering of the first word only
binary_first_word(value_list) ==
  IF value_list = <<>> THEN "" ELSE JoinWords(<<Head(value_list)>>)

\* the rendering with the last word put first
binary_last_first(value_list) ==
  IF value_list = <<>> THEN ""
  ELSE JoinWords(<<value_list[Len(value_list)]>>
                 \o SubSeq(value_list, 1, Len(value_list) - 1))

\* binary(value_list), lines 69-71: join of '{0:016b}'.format(i) over the
\* words
binary(value_list) == JoinWords(value_list)

\* f'{i:x}': base-16 digits of i, lower case, no padding
RECURSIVE FormatX(_)
FormatX(i) ==
  LET digit == SubSeq("0123456789abcdef", (i % 16) + 1, (i % 16) + 1)
  IN IF i < 16 THEN digit ELSE FormatX(i \div 16) \o digit

\* hex_str(value_list)
hex_str(value_list) == FormatX(value_list[1]) \o FormatX(value_list[2])

-----------------------------------------------------------------------------
(* fineco_generate_key, lines 120-126.                                      *)

\* the key with the mask applied to the second term only
fineco_generate_key_maskfirst(meter_serial_number) ==
  ShiftRight(meter_serial_number, 24) + BitAnd(ShiftRight(meter_serial_number, 8), 4660)

\* the key without the final mask
fineco_generate_key_nomask(meter_serial_number) ==
  ShiftRight(meter_serial_number, 24) + ShiftRight(meter_serial_number, 8)

fineco_generate_key(meter_serial_number) ==
  LET tmp1 == ShiftRight(meter_serial_number, 24)
      tmp2 == tmp1 + ShiftRight(meter_serial_number, 8)
  IN BitAnd(tmp2, 4660)

-----------------------------------------------------------------------------
(* The register catalog of modbus_req, lines 139-264: per model and         *)
(* register name <<function code, address, count, info text, data type>>.   *)

meter_regs ==
     "SDM72" :> (
         "kWh" :> <<4, 342, 2, "kWh", "F32">>
      @@ "imp_kWh" :> <<4, 72, 2, "kWh", "F32">>
      @@ "exp_kWh" :> <<4, 74, 2, "kWh", "F32">>
      @@ "power" :> <<4, 52, 2, "W", "F32">>
      @@ "L1A" :> <<4, 6, 2, "A", "F32">>
      @@ "L2A" :> <<4, 8, 2, "A", "F32">>
      @@ "L3A" :> <<4, 10, 2, "A", "F32">>
      @@ "L1V" :> <<4, 0, 2, "V", "F32">>
      @@ "L2V" :> <<4, 2, 2, "V", "F32">>
      @@ "L3V" :> <<4, 4, 2, "V", "F32">>
      @@ "Totpf" :> <<4, 62, 2, "", "F32">>
      @@ "TotHz" :> <<4, 70, 2, "Hz", "F32">>
      @@ "serial_no" :> <<3, 64512, 2, "(integer)", "U32">>
      @@ "serial_no_bin" :> <<3, 64512, 2, "(binary)", "bin">>
      @@ "serial_no_hex" :> <<3, 64512, 2, "(hex)", "hex">>
      @@ "baudrate" :> <<3, 28, 2, "(integer)", "F32">>
      @@ "set_baudrate" :> <<16, 28, 2, "", "F32">>
      @@ "unit_id" :> <<3, 20, 2, "(modbus id/address)", "F32">>
      @@ "set_unit_id" :> <<16, 20, 2, "", "F32">>)
  @@ "SDM120" :> (
         "kWh" :> <<4, 342, 2, "kWh", "F32">>
      @@ "imp_kWh" :> <<4, 72, 2, "kWh", "F32">>
      @@ "exp_kWh" :> <<4, 74, 2, "kWh", "F32">>
      @@ "power" :> <<4, 52, 2, "W", "F32">>
      @@ "L1A" :> <<4, 6, 2, "A", "F32">>
      @@ "L1V" :> <<4, 0, 2, "V", "F32">>
      @@ "Totpf" :> <<4, 62, 2, "", "F32">>
      @@ "TotHz" :> <<4, 70, 2, "Hz", "F32">>
      @@ "serial_no" :> <<3, 64512, 2, "(integer)", "U32">>
      @@ "serial_no_bin" :> <<3, 64512, 2, "(binary)", "bin">>
      @@ "serial_no_hex" :> <<3, 64512, 2, "(hex)", "hex">>
      @@ "baudrate" :> <<3, 28, 2, "(integer)", "F32">>
      @@ "set_baudrate" :> <<16, 28, 2, "", "F32">>
      @@ "unit_id" :> <<3, 20, 2, "(modbus id/address)", "F32">>
      @@ "set_unit_id" :> <<16, 20, 2, "", "F32">>)
  @@ "SDM230" :> (
         "kWh" :> <<4, 342, 2, "kWh", "F32">>
      @@ "imp_kWh" :> <<4, 72, 2, "kWh", "F32">>
      @@ "exp_kWh" :> <<4, 74, 2, "kWh", "F32">>
      @@ "power" :> <<4, 52, 2, "W", "F32">>
      @@ "L1A" :> <<4, 6, 2, "A", "F32">>
      @@ "L1V" :> <<4, 0, 2, "V", "F32">>
      @@ "Totpf" :> <<4, 62, 2, "", "F32">>
      @@ "TotHz" :> <<4, 70, 2, "Hz", "F32">>
      @@ "serial_no" :> <<3, 64512, 2, "(integer)", "U32">>
      @@ "serial_no_bin" :> <<3, 64512, 2, "(binary)", "bin">>
      @@ "serial_no_hex" :> <<3, 64512, 2, "(hex)", "hex">>
      @@ "baudrate" :> <<3, 28, 2, "(integer)", "F32">>
      @@ "set_baudrate" :> <<16, 28, 2, "", "F32">>
      @@ "unit_id" :> <<3, 20, 2, "(modbus id/address)", "F32">>
      @@ "set_unit_id" :> <<16, 20, 2, "", "F32">>)
  @@ "SDM630" :> (
         "kWh" :> <<4, 342, 2, "kWh", "F32">>
      @@ "imp_kWh" :> <<4, 72, 2, "kWh", "F32">>
      @@ "exp_kWh" :> <<4, 74, 2, "kWh", "F32">>
      @@ "power" :> <<4, 52, 2, "W", "F32">>
      @@ "L1A" :> <<4, 6, 2, "A", "F32">>
      @@ "L2A" :> <<4, 8, 2, "A", "F32">>
      @@ "L3A" :> <<4, 10, 2, "A", "F32">>
      @@ "L1V" :> <<4, 0, 2, "V", "F32">>
      @@ "L2V" :> <<4, 2, 2, "V", "F32">>
      @@ "L3V" :> <<4, 4, 2, "V", "F32">>
      @@ "Totpf" :> <<4, 62, 2, "", "F32">>
      @@ "TotHz" :> <<4, 70, 2, "Hz", "F32">>
      @@ "serial_no" :> <<3, 64512, 2, "(integer)", "U32">>
      @@ "serial_no_bin" :> <<3, 64512, 2, "(binary)", "bin">>
      @@ "serial_no_hex" :> <<3, 64512, 2, "(hex)", "hex">>
      @@ "baudrate" :> <<3, 28, 2, "(integer)", "F32">>
      @@ "set_baudrate" :> <<16, 28, 2, "", "F32">>
      @@ "unit_id" :> <<3, 20, 2, "(modbus id/address)", "F32">>
      @@ "set_unit_id" :> <<16, 20, 2, "", "F32">>)
  @@ "EM115" :> (
         "kWh" :> <<4, 362, 2, "kWh", "F32">>
      @@ "imp_kWh" :> <<4, 352, 2, "kWh", "F32">>
      @@ "exp_kWh" :> <<4, 358, 2, "kWh", "F32">>
      @@ "power" :> <<4, 8, 2, "W", "F32">>
      @@ "L1A" :> <<4, 6, 2, "A", "F32">>
      @@ "L2A" :> <<4, 0, 2, "A", "F32">>
      @@ "L3A" :> <<4, 0, 2, "A", "F32">>
      @@ "L1V" :> <<4, 2, 2, "V", "F32">>
      @@ "L2V" :> <<4, 0, 2, "V", "F32">>
      @@ "L3V" :> <<4, 0, 2, "V", "F32">>
      @@ "Totpf" :> <<4, 14, 2, "", "F32">>
      @@ "TotHz" :> <<4, 4, 2, "Hz", "F32">>
      @@ "serial_no" :> <<4, 65280, 2, "(integer)", "U32">>
      @@ "serial_no_bin" :> <<4, 65280, 2, "(binary)", "bin">>
      @@ "serial_no_hex" :> <<4, 65280, 2, "(hex)", "hex">>
      @@ "set_serial_no" :> <<16, 65280, 2, "", "U32">>
      @@ "relay_state" :> <<4, 1382, 1, "(01..=on, 10..=off)", "bin">>
      @@ "set_relay_state" :> <<16, 1382, 2, "", "">>
      @@ "baudrate" :> <<4, 1317, 1, "(integer)", "U16">>
      @@ "set_baudrate" :> <<16, 1317, 1, "", "">>
      @@ "unit_id" :> <<4, 1316, 1, "(modbus id/address)", "U16">>
      @@ "set_unit_id" :> <<16, 1316, 1, "", "">>)
  @@ "EM737" :> (
         "kWh" :> <<4, 1792, 2, "kWh", "F32">>
      @@ "imp_kWh" :> <<4, 2048, 2, "kWh", "F32">>
      @@ "exp_kWh" :> <<4, 2304, 2, "kWh", "F32">>
      @@ "power" :> <<4, 38, 2, "W", "F32">>
      @@ "L1A" :> <<4, 22, 2, "A", "F32">>
      @@ "L2A" :> <<4, 24, 2, "A", "F32">>
      @@ "L3A" :> <<4, 26, 2, "A", "F32">>
      @@ "L1V" :> <<4, 16, 2, "V", "F32">>
      @@ "L2V" :> <<4, 18, 2, "V", "F32">>
      @@ "L3V" :> <<4, 20, 2, "V", "F32">>
      @@ "Totpf" :> <<4, 62, 2, "", "F32">>
      @@ "TotHz" :> <<4, 64, 2, "Hz", "F32">>
      @@ "serial_no" :> <<4, 65280, 2, "(integer)", "U32">>
      @@ "serial_no_bin" :> <<4, 65280, 2, "(binary)", "bin">>
      @@ "serial_no_hex" :> <<4, 65280, 2, "(hex)", "hex">>
      @@ "set_serial_no" :> <<16, 65280, 2, "", "U32">>
      @@ "relay_state" :> <<4, 1382, 1, "(01..=on, 10..=off)", "bin">>
      @@ "set_relay_state" :> <<16, 1382, 2, "", "">>
      @@ "baudrate" :> <<4, 1317, 1, "(integer)", "U16">>
      @@ "set_baudrate" :> <<16, 1317, 1, "", "">>
      @@ "unit_id" :> <<3, 1316, 1, "(modbus id/address)", "U16">>
      @@ "set_unit_id" :> <<16, 1316, 1, "", "">>)

-----------------------------------------------------------------------------
(* Sample inputs and meter answers.                                         *)

\* choices of --meter-model, line 565
MeterModels == {"SDM72", "SDM120", "SDM230", "SDM630", "EM115", "EM737"}

\* choices of --set-relay with its default False, line 567
SetRelayChoices == {"False", "on", "off", "auto", "0", "1"}

\* choices of --set-baudrate with its default None, line 562
SetBaudrateChoices == {"None", "1200", "2400", "4800", "9600", "19200", "38400"}

\* sampled --set-unit-id values (0 stands for None)
SetUnitIdChoices == {0, 2}

\* sampled --set-serial strings ("" stands for None)
SetSerialChoices == {"", "0x10", "0b101", "1234", "0"}

\* L1V register pairs the meter may answer: 120.0, 170.0, 225.0 V
VoltageRegs == {<<17136, 0>>, <<17194, 0>>, <<17249, 0>>}

\* relay_state words: on, off, and a pattern get_relay_state does not know
RelayWords == {21845, 43690, 34952}

\* serial-number register pairs: 0, 0xFF, 0x123400, 0x00FFFF00, 0x01000000,
\* 0x12345678, 0x7FFFEDCB, 0x7FFFFFFF
SerialRegs ==
  {<<0, 0>>, <<0, 255>>, <<18, 13312>>, <<255, 65280>>, <<256, 0>>,
   <<4660, 22136>>, <<32767, 60875>>, <<32767, 65535>>}

\* baudrate register answers: F32 2.0 and 7.0 (no table entry) on Eastron
\* meters, U16 9600 on Fineco meters
BaudrateRegs(data_type) ==
  IF data_type = "F32" THEN {<<16384, 0>>, <<16608, 0>>}
  ELSE {<<9600>>}

\* unit_id register answers: F32 1.0 and 2.0, or U16 1 and 2
UnitIdRegs(data_type) ==
  IF data_type = "F32" THEN {<<16256, 0>>, <<16384, 0>>}
  ELSE {<<1>>, <<2>>}

\* stands for Python's recursion limit: the deepest nesting of a
\* configurator calling itself before RecursionError is raised
MaxRecursion == 3

-----------------------------------------------------------------------------
(* Python values.                                                           *)

PyInt(n) == [kind |-> "int", v |-> n]
PyList(s) == [kind |-> "list", v |-> s]
PyNone == [kind |-> "none", v |-> 0]

\* a payload that is never taken for missing
NotPayload_never(payload) == FALSE

\* 'not payload' in modbus_req, line 277: None, 0 and [] are falsy
NotPayload(payload) ==
  IF payload.kind = "none" THEN TRUE
  ELSE IF payload.kind = "int" THEN payload.v = 0
  ELSE payload.v = <<>>

\* truth value of args.set_relay (False, or a non-empty string)
SetRelayGiven == args.set_relay # "False"

\* int(float) on a value carried in 1/128 units: truncation towards zero
IntOfFloat(value) == IF value >= 0 THEN value \div 128 ELSE -((-value) \div 128)

-----------------------------------------------------------------------------
(* modbus_req, lines 129-324, split into the request it puts on the bus and *)
(* the decoding of the answer.                                              *)

\* the catalog of the model with every entry one word long
mregs_one_word ==
  [n \in DOMAIN meter_regs[args.meter_model] |->
     LET d == meter_regs[args.meter_model][n]
     IN <<d[1], d[2], 1, d[4], d[5]>>]

\* the catalog of the model with the relay_state entry left out
mregs_no_relay_state ==
  [n \in DOMAIN meter_regs[args.meter_model] \ {"relay_state"} |->
     meter_regs[args.meter_model][n]]

\* line 266
mregs == meter_regs[args.meter_model]

\* line 267: register_name in mregs
Supported(register_name) == register_name \in DOMAIN mregs

\* lines 272-275: the read issued for a catalogued register
ReadRequest(register_name, unit) ==
  LET d == mregs[register_name]
  IN [op |-> IF d[1] = 3 THEN "read_holding_registers" ELSE "read_input_registers",
      reg |-> register_name, address |-> d[2], count |-> d[3],
      values |-> <<>>, unit |-> unit, client |-> client]

\* lines 276-288: "missing" when the payload is falsy, "unsupported" for a
\* data type that cannot be encoded, "ok" otherwise
WriteCheck(register_name, payload) ==
  LET data_type == mregs[register_name][5]
  IN IF NotPayload(payload) THEN "missing_payload"
     ELSE IF data_type # "" /\ data_type \notin {"F32", "U32"} THEN "unsupported_data_type"
     ELSE "ok"

\* lines 280-289: the write issued; an int handed over unencoded goes out
\* as the single value it is
WriteRequest(register_name, payload, unit) ==
  LET d == mregs[register_name]
      encoded == IF d[5] = "F32" THEN reverse_ieee754(FloatOfInt(payload.v))
                 ELSE IF d[5] = "U32" THEN reverse_u32(payload.v)
                 ELSE IF payload.kind = "list" THEN payload.v
                 ELSE <<payload.v>>
  IN [op |-> "write_registers", reg |-> register_name, address |-> d[2],
      count |-> 0, values |-> encoded, unit |-> unit, client |-> client]

\* lines 304-315: the value of a reading that has one
Decode(register_name, regs) ==
  LET data_type == mregs[register_name][5]
  IN IF data_type = "F32" THEN Units128(ieee754(regs))
     ELSE IF data_type = "U32" THEN u32(regs)
     ELSE IF data_type = "U16" THEN u16(regs)
     ELSE IF data_type = "bin" THEN binary(regs)
     ELSE hex_str(regs)

\* an unsupported name answered with a value and no text
NotSupportedReading_info ==
  [has_value |-> TRUE, value |-> 0, info_text |-> ""]

\* lines 267-269: the reading of a name absent from the catalog; value is
\* None (has_value FALSE)
NotSupportedReading ==
  [has_value |-> FALSE, value |-> 0, info_text |-> "Not supported for this model"]

\* lines 304-324: the reading made of an answer; no registers, or a
\* register without data type, give the value None
Reading(register_name, regs) ==
  LET d == mregs[register_name]
  IN IF regs # <<>> /\ d[5] # ""
     THEN [has_value |-> TRUE, value |-> Decode(register_name, regs), info_text |-> d[4]]
     ELSE [has_value |-> FALSE, value |-> 0, info_text |-> d[4]]

\* no call of modbus_req under way, nothing returned
NoReq == [register_name |-> "", payload |-> PyNone]
NoReading == [has_value |-> FALSE, value |-> 0, info_text |-> ""]

\* the error is reported and the step is taken again
Exit1_retry(reason) ==
  /\ status' = status
  /\ fatal' = reason
  /\ pc' = pc

\* sys.exit(1): the run ends where it stands, the session is not closed
Exit1(reason) ==
  /\ status' = "exit1"
  /\ fatal' = reason
  /\ pc' = "done"

relayVars == <<set_state, cur_state, serial_no, key, relay_result>>
baudVars == <<baudrate, read_only>>
unitVars == <<unit_id, depth>>
sessionVars == <<sessions, client>>
reqVars == <<req, reading>>
codecVars == <<arg, result>>

\* no codec function applied
NoArg == [fn |-> "", kind |-> "none", v |-> 0]

-----------------------------------------------------------------------------
(* main, lines 550-604: the order of the requested operations.              *)

AfterSerial == "close"
AfterUnitId ==
  IF args.get_serial \/ args.set_serial # "" THEN "modbus_serial" ELSE AfterSerial
AfterBaudrate ==
  IF args.get_unit_id \/ args.set_unit_id # 0 THEN "modbus_unit_id" ELSE AfterUnitId
AfterRelay ==
  IF args.get_baudrate \/ args.set_baudrate # "None" THEN "modbus_baudrate"
  ELSE AfterBaudrate
AfterCurious ==
  IF args.get_relay \/ SetRelayGiven THEN "modbus_relay" ELSE AfterRelay
AfterVoltage ==
  IF args.curious THEN "modbus_req_alot" ELSE AfterCurious

\* the parsed command line: --serial-port and --host exclude each other
\* (dev_group), and at most one --set-* option is given (ch_group).  main
\* tests "get or set" for each operation, so a --get-* flag next to the
\* --set-* option of the same operation changes nothing and is left out.
ArgsSet ==
  { a \in [meter_model : MeterModels,
           transport : {"serial", "host", "none"},
           baudrate : {9600},
           unit_id : {1},
           curious : BOOLEAN,
           get_relay : BOOLEAN, set_relay : SetRelayChoices,
           get_baudrate : BOOLEAN, set_baudrate : SetBaudrateChoices,
           get_unit_id : BOOLEAN, set_unit_id : SetUnitIdChoices,
           get_serial : BOOLEAN, set_serial : SetSerialChoices] :
      /\ Cardinality({o \in {"relay", "baudrate", "unit_id", "serial"} :
                     \/ o = "relay" /\ a.set_relay # "False"
                     \/ o = "baudrate" /\ a.set_baudrate # "None"
                     \/ o = "unit_id" /\ a.set_unit_id # 0
                     \/ o = "serial" /\ a.set_serial # ""}) <= 1
      /\ (a.set_relay # "False" => ~a.get_relay)
      /\ (a.set_baudrate # "None" => ~a.get_baudrate)
      /\ (a.set_unit_id # 0 => ~a.get_unit_id)
      /\ (a.set_serial # "" => ~a.get_serial) }

Init ==
  /\ args \in ArgsSet
  /\ pc = "main"
  /\ status = "running"
  /\ fatal = ""
  /\ bus = <<>>
  /\ sessions = <<>>
  /\ client = 0
  /\ dev_relay \in (IF args.meter_model \in {"EM115", "EM737"} THEN RelayWords ELSE {0})
  /\ voltage = -1
  /\ set_state = "None"
  /\ cur_state = "None"
  /\ serial_no = -1
  /\ key = -1
  /\ relay_result = "None"
  /\ baudrate = -1
  /\ read_only = FALSE
  /\ unit_id = 0
  /\ depth = 0
  /\ req = NoReq
  /\ reading = NoReading
  /\ arg = NoArg
  /\ result = <<>>

\* a session always opened at args.baudrate
connect_args_rate(new_baudrate) ==
  IF args.transport = "host"
  THEN [kind |-> "tcp", baudrate |-> 0, open |-> TRUE, closes |-> 0]
  ELSE [kind |-> "serial", baudrate |-> args.baudrate, open |-> TRUE, closes |-> 0]

\* connect(args, new_baudrate), lines 92-117: the session it opens
connect(new_baudrate) ==
  IF args.transport = "host"
  THEN [kind |-> "tcp", baudrate |-> 0, open |-> TRUE, closes |-> 0]
  ELSE [kind |-> "serial",
        baudrate |-> IF new_baudrate # 0 THEN new_baudrate ELSE args.baudrate,
        open |-> TRUE, closes |-> 0]

\* client.close()
Close(ss, c) == [ss EXCEPT ![c].open = FALSE, ![c].closes = @ + 1]

\* main, lines 575-582: refuse a run without transport, else connect
main_connect ==
  /\ pc = "main"
  /\ IF args.transport = "none"
     THEN /\ Exit1("no_transport")
          /\ UNCHANGED sessionVars
     ELSE /\ sessions' = Append(sessions, connect(0))
          /\ client' = Len(sessions) + 1
          /\ pc' = "voltage_test"
          /\ UNCHANGED <<status, fatal>>
  /\ UNCHANGED <<args, reqVars, codecVars, bus, dev_relay, voltage, relayVars, baudVars, unitVars>>

\* voltage_test, lines 410-428
voltage_test ==
  /\ pc = "voltage_test"
  /\ bus' = Append(bus, ReadRequest("L1V", args.unit_id))
  /\ \/ /\ Exit1("transport_error")
        /\ UNCHANGED voltage
     \/ \E regs \in VoltageRegs :
          LET v == Decode("L1V", regs)
              \* 115*(1-0.1) = 103.5, 115*(1+0.1) = 126.50000000000001,
              \* 230*(1-0.1) = 207.0, 230*(1+0.1) = 253.00000000000003
              \* as doubles; in 1/128 units the strict upper comparisons
              \* admit the values 126.5 and 253.0 themselves
              in115 == 13248 < v /\ v <= 16192
              in230 == 26496 < v /\ v <= 32384
              voltage_ok == ~(in115 /\ in230)
          IN /\ voltage' = v
             /\ IF voltage_ok
                THEN /\ pc' = AfterVoltage
                     /\ UNCHANGED <<status, fatal>>
                ELSE Exit1("voltage_out_of_range")
  /\ UNCHANGED <<args, reqVars, codecVars, sessionVars, dev_relay, relayVars, baudVars, unitVars>>

\* the register names modbus_req_alot asks for, line 329
reg_names ==
  <<"kWh", "imp_kWh", "power", "L1A", "L2A", "L3A", "L1V", "L2V", "L3V",
    "Totpf", "TotHz", "serial_no", "serial_no_bin", "serial_no_hex", "relay_state">>

\* the reads a loop over names puts on the bus: names absent from the
\* catalog cost no request
RECURSIVE ReadsFor(_, _)
ReadsFor(names, unit) ==
  IF names = <<>> THEN <<>>
  ELSE (IF Supported(Head(names)) THEN <<ReadRequest(Head(names), unit)>> ELSE <<>>)
       \o ReadsFor(Tail(names), unit)

\* modbus_req_alot, lines 327-338: every read is answered, or the n-th one
\* comes back as an error and ends the run
modbus_req_alot ==
  /\ pc = "modbus_req_alot"
  /\ LET reads == ReadsFor(reg_names, args.unit_id)
     IN \/ /\ bus' = bus \o reads
           /\ pc' = AfterCurious
           /\ UNCHANGED <<status, fatal>>
        \/ \E n \in 1..Len(reads) :
             /\ bus' = bus \o SubSeq(reads, 1, n)
             /\ Exit1("transport_error")
  /\ UNCHANGED <<args, reqVars, codecVars, sessionVars, dev_relay, voltage, relayVars, baudVars, unitVars>>

\* main, line 604: client.close() and the normal end of the run
main_close ==
  /\ pc = "close"
  /\ sessions' = Close(sessions, client)
  /\ status' = "exit0"
  /\ pc' = "done"
  /\ UNCHANGED <<args, reqVars, codecVars, fatal, bus, client, dev_relay, voltage, relayVars, baudVars, unitVars>>

-----------------------------------------------------------------------------
(* The relay controller, lines 341-407.                                     *)

\* the code of auto recognised as a third state
get_relay_state_auto(value) ==
  IF value = "1000100010001000" THEN "auto"
  ELSE IF value \notin {"1010101010101010", "0101010101010101"} THEN "unknown"
  ELSE IF value = "0101010101010101" THEN "on" ELSE "off"

\* every value other than the code of on taken for off
get_relay_state_lenient(value) ==
  IF value = "0101010101010101" THEN "on" ELSE "off"

\* get_relay_state, lines 344-350, on the value read: "on", "off", or
\* "unknown" where the source exits
get_relay_state(value) ==
  IF value \notin {"1010101010101010", "0101010101010101"} THEN "unknown"
  ELSE IF value = "0101010101010101" THEN "on" ELSE "off"

\* modbus_relay, lines 355-360: the state asked for.  False == 0 in Python,
\* so the default False is a member of [0, '0'] and becomes 'off'.
NormalizedSetState(set_relay) ==
  LET s1 == IF set_relay \in {"False", "0"} THEN "off" ELSE set_relay
  IN IF s1 = "1" THEN "on" ELSE s1

\* state_value_dict with the codes of on and off exchanged
state_value_dict_swapped == [on |-> 43690, off |-> 21845, auto |-> 34952]

\* state_value_dict, line 397
state_value_dict == [on |-> 21845, off |-> 43690, auto |-> 34952]

\* the early return never taken
NothingToDo_never(requested, current) == FALSE

\* modbus_relay, line 376: set_state == cur_state
NothingToDo(requested, current) == requested = current

\* what is left of modbus_relay's frame once it has returned r: its locals
\* are gone, main keeps the result in state (line 592)
RelayReturn(r) ==
  /\ relay_result' = r
  /\ set_state' = "None"
  /\ cur_state' = "None"
  /\ serial_no' = -1
  /\ key' = -1
  /\ pc' = AfterRelay
  /\ UNCHANGED <<status, fatal>>

\* every model taken for one with a relay
RelayModelOk_any(meter_model) == TRUE

\* modbus_relay, line 363: the basic check of the meter model
RelayModelOk(meter_model) == Prefix(meter_model, 2) = "EM"

\* modbus_relay, lines 353-380: normalise the request, check the model and
\* the request, read the current state (None for a model without the
\* register), return if there is nothing to do
modbus_relay ==
  /\ pc = "modbus_relay"
  /\ LET s == NormalizedSetState(args.set_relay)
         reads == ReadsFor(<<"relay_state">>, args.unit_id)
     IN IF ~RelayModelOk(args.meter_model)
        THEN /\ Exit1("relay_unsupported_model")
             /\ UNCHANGED <<bus, relayVars>>
        ELSE IF s \notin {"None", "on", "off", "auto"}
        THEN /\ Exit1("relay_unsupported_state")
             /\ UNCHANGED <<bus, relayVars>>
        ELSE /\ bus' = bus \o reads
             /\ \/ /\ reads # <<>>
                   /\ Exit1("transport_error")
                   /\ UNCHANGED relayVars
                \/ LET value == IF reads = <<>> THEN "None" ELSE binary(<<dev_relay>>)
                       cur == get_relay_state(value)
                   IN IF cur = "unknown"
                      THEN /\ Exit1("relay_state_unknown")
                           /\ UNCHANGED relayVars
                      ELSE IF NothingToDo(s, cur)
                      THEN RelayReturn(cur)
                      ELSE /\ set_state' = s
                           /\ cur_state' = cur
                           /\ pc' = "modbus_relay_serial"
                           /\ UNCHANGED <<status, fatal, serial_no, key, relay_result>>
  /\ UNCHANGED <<args, reqVars, codecVars, sessionVars, dev_relay, voltage, baudVars, unitVars>>

\* modbus_relay, lines 382-393: read the serial number, compute the key,
\* return if no state was asked for
modbus_relay_serial ==
  /\ pc = "modbus_relay_serial"
  /\ bus' = Append(bus, ReadRequest("serial_no", args.unit_id))
  /\ \/ /\ Exit1("transport_error")
        /\ UNCHANGED relayVars
     \/ \E regs \in SerialRegs :
          IF set_state = "None"
          THEN RelayReturn(set_state)
          ELSE /\ serial_no' = Decode("serial_no", regs)
               /\ key' = fineco_generate_key(Decode("serial_no", regs))
               /\ pc' = "modbus_relay_set"
               /\ UNCHANGED <<status, fatal, set_state, cur_state, relay_result>>
  /\ UNCHANGED <<args, reqVars, codecVars, sessionVars, dev_relay, voltage, baudVars, unitVars>>

\* modbus_relay, lines 395-399: write [key, state_value]; the meter takes
\* the new state, keeps the old one, or settles in another one
modbus_relay_set ==
  /\ pc = "modbus_relay_set"
  /\ LET payload == PyList(<<key, state_value_dict[set_state]>>)
         check == WriteCheck("set_relay_state", payload)
     IN IF check # "ok"
        THEN /\ Exit1(check)
             /\ UNCHANGED <<bus, dev_relay>>
        ELSE /\ bus' = Append(bus, WriteRequest("set_relay_state", payload, args.unit_id))
             /\ \/ /\ Exit1("transport_error")
                   /\ UNCHANGED dev_relay
                \/ /\ dev_relay' \in RelayWords
                   /\ pc' = "modbus_relay_confirm"
                   /\ UNCHANGED <<status, fatal>>
  /\ UNCHANGED <<args, reqVars, codecVars, sessionVars, voltage, relayVars, baudVars, unitVars>>

\* a relay that did not take the state asked for ends the run
RelayNotChanged_fatal(r) ==
  /\ Exit1("relay_not_changed")
  /\ UNCHANGED relayVars

\* modbus_relay, lines 404-407: a state other than the one asked for is a
\* printed warning, and the state read is returned
RelayNotChanged(r) == RelayReturn(r)

\* modbus_relay, lines 401-407: read the state again and return it
modbus_relay_confirm ==
  /\ pc = "modbus_relay_confirm"
  /\ bus' = Append(bus, ReadRequest("relay_state", args.unit_id))
  /\ \/ /\ Exit1("transport_error")
        /\ UNCHANGED relayVars
     \/ LET cur == get_relay_state(binary(<<dev_relay>>))
        IN IF cur = "unknown"
           THEN /\ Exit1("relay_state_unknown")
                /\ UNCHANGED relayVars
           ELSE IF cur # set_state
           THEN RelayNotChanged(cur)
           ELSE RelayReturn(cur)
  /\ UNCHANGED <<args, reqVars, codecVars, sessionVars, dev_relay, voltage, baudVars, unitVars>>

-----------------------------------------------------------------------------
(* int(string, base) as the configurators use it.                           *)

\* int(s, 16) and int(s, 2) accept the matching 0x / 0b prefix
PyIntOfStr(s, base) ==
  IF base = 16 /\ Prefix(s, 2) = "0x" THEN ParseDigits(SubSeq(s, 3, Len(s)), 16)
  ELSE IF base = 2 /\ Prefix(s, 2) = "0b" THEN ParseDigits(SubSeq(s, 3, Len(s)), 2)
  ELSE ParseDigits(s, base)

-----------------------------------------------------------------------------
(* The baud-rate configurator, lines 431-494.                               *)

\* lines 434-443
meter_brand ==
  IF Prefix(args.meter_model, 2) = "EM" THEN "Fineco"
  ELSE IF Prefix(args.meter_model, 3) = "SDM" THEN "Eastron"
  ELSE "unsupported"

\* line 451
baudrate_dict ==
  0 :> 2400 @@ 1 :> 4800 @@ 2 :> 9600 @@ 3 :> 19200 @@ 4 :> 38400 @@ 5 :> 1200

\* modbus_baudrate, lines 431-469: read the register, map it for Eastron
\* meters, return unless a new rate is to be set
modbus_baudrate ==
  /\ pc = "modbus_baudrate"
  /\ IF meter_brand = "unsupported"
     THEN /\ Exit1("baudrate_unsupported_model")
          /\ UNCHANGED <<bus, baudrate>>
     ELSE /\ bus' = Append(bus, ReadRequest("baudrate", args.unit_id))
          /\ \/ /\ Exit1("transport_error")
                /\ UNCHANGED baudrate
             \/ \E regs \in BaudrateRegs(mregs["baudrate"][5]) :
                  LET raw == Decode("baudrate", regs)
                      value == IF meter_brand = "Eastron" THEN IntOfFloat(raw) ELSE raw
                  IN IF meter_brand = "Eastron" /\ value \notin DOMAIN baudrate_dict
                     THEN /\ Exit1("baudrate_unmappable")
                          /\ UNCHANGED baudrate
                     ELSE /\ baudrate' = IF meter_brand = "Eastron"
                                         THEN baudrate_dict[value] ELSE value
                          /\ pc' = IF read_only \/ args.set_baudrate = "None"
                                   THEN AfterBaudrate ELSE "modbus_baudrate_set"
                          /\ UNCHANGED <<status, fatal>>
  /\ UNCHANGED <<args, reqVars, codecVars, sessionVars, dev_relay, voltage, relayVars, read_only, unitVars>>

\* every transport taken for a serial line
SerialPortGiven_always == TRUE

\* modbus_baudrate, line 482: args.serial_port is set
SerialPortGiven == args.transport = "serial"

\* modbus_baudrate, lines 471-494: write the new value; over a serial line
\* close the session, open one at the new rate and read the rate back
modbus_baudrate_set ==
  /\ pc = "modbus_baudrate_set"
  /\ LET new_baudrate == PyIntOfStr(args.set_baudrate, 10)
         new_value == IF meter_brand = "Eastron"
                      THEN CHOOSE i \in DOMAIN baudrate_dict : baudrate_dict[i] = new_baudrate
                      ELSE new_baudrate
         payload == PyInt(new_value)
         check == WriteCheck("set_baudrate", payload)
     IN IF check # "ok"
        THEN /\ Exit1(check)
             /\ UNCHANGED <<bus, sessionVars, baudVars>>
        ELSE /\ bus' = Append(bus, WriteRequest("set_baudrate", payload, args.unit_id))
             /\ \/ /\ Exit1("transport_error")
                   /\ UNCHANGED <<sessionVars, baudVars>>
                \/ /\ IF ~SerialPortGiven
                      THEN /\ baudrate' = new_baudrate
                           /\ pc' = AfterBaudrate
                           /\ UNCHANGED <<sessionVars, read_only>>
                      ELSE /\ sessions' = Append(Close(sessions, client), connect(new_baudrate))
                           /\ client' = Len(sessions) + 1
                           /\ read_only' = TRUE
                           /\ pc' = "modbus_baudrate"
                           /\ UNCHANGED baudrate
                   /\ UNCHANGED <<status, fatal>>
  /\ UNCHANGED <<args, reqVars, codecVars, dev_relay, voltage, relayVars, unitVars>>

-----------------------------------------------------------------------------
(* The unit-id configurator, lines 497-518.                                 *)

\* an uncaught RecursionError: traceback, non-zero status, nothing closed
RecursionError ==
  /\ status' = "traceback"
  /\ fatal' = "RecursionError"
  /\ pc' = "done"

\* modbus_unit_id, lines 497-506: ask the meter, at the unit id handed in
\* or else at args.unit_id, for its unit id; return unless one is to be set
modbus_unit_id ==
  /\ pc = "modbus_unit_id"
  /\ bus' = Append(bus, ReadRequest("unit_id", IF unit_id = 0 THEN args.unit_id ELSE unit_id))
  /\ \/ /\ Exit1("transport_error")
        /\ UNCHANGED unit_id
     \/ \E regs \in UnitIdRegs(mregs["unit_id"][5]) :
          LET value == Decode("unit_id", regs)
          IN /\ unit_id' = IF mregs["unit_id"][5] = "F32" THEN IntOfFloat(value) ELSE value
             /\ pc' = IF args.set_unit_id = 0 THEN AfterUnitId ELSE "modbus_unit_id_set"
             /\ UNCHANGED <<status, fatal>>
  /\ UNCHANGED <<args, reqVars, codecVars, sessionVars, dev_relay, voltage, relayVars, baudVars, depth>>

\* modbus_unit_id, lines 508-515: write the new unit id to the meter at
\* args.unit_id, then call modbus_unit_id again with the new unit id
modbus_unit_id_set ==
  /\ pc = "modbus_unit_id_set"
  /\ LET payload == PyInt(args.set_unit_id)
         check == WriteCheck("set_unit_id", payload)
     IN IF check # "ok"
        THEN /\ Exit1(check)
             /\ UNCHANGED <<bus, unitVars>>
        ELSE /\ bus' = Append(bus, WriteRequest("set_unit_id", payload, args.unit_id))
             /\ \/ /\ Exit1("transport_error")
                   /\ UNCHANGED unitVars
                \/ IF depth >= MaxRecursion
                   THEN /\ RecursionError
                        /\ UNCHANGED unitVars
                   ELSE /\ depth' = depth + 1
                        /\ unit_id' = args.set_unit_id
                        /\ pc' = "modbus_unit_id"
                        /\ UNCHANGED <<status, fatal>>
  /\ UNCHANGED <<args, reqVars, codecVars, sessionVars, dev_relay, voltage, relayVars, baudVars>>

-----------------------------------------------------------------------------
(* The serial-number configurator, lines 521-547.                           *)

\* every model taken for a Fineco meter
SerialModelOk_any(meter_model) == TRUE

\* modbus_serial, line 528: the meter is a Fineco meter
SerialModelOk(meter_model) == Prefix(meter_model, 2) = "EM"

\* modbus_serial, lines 521-531: read the three renderings of the serial
\* number; return unless one is to be set, which only Fineco meters allow
modbus_serial ==
  /\ pc = "modbus_serial"
  /\ LET reads == ReadsFor(<<"serial_no", "serial_no_bin", "serial_no_hex">>, args.unit_id)
     IN \/ /\ bus' = bus \o reads
           /\ IF args.set_serial = ""
              THEN /\ pc' = AfterSerial
                   /\ UNCHANGED <<status, fatal>>
              ELSE IF ~SerialModelOk(args.meter_model)
              THEN Exit1("serial_unsupported_model")
              ELSE /\ pc' = "modbus_serial_set"
                   /\ UNCHANGED <<status, fatal>>
        \/ \E n \in 1..Len(reads) :
             /\ bus' = bus \o SubSeq(reads, 1, n)
             /\ Exit1("transport_error")
  /\ UNCHANGED <<args, reqVars, codecVars, sessionVars, dev_relay, voltage, relayVars, baudVars, unitVars>>

\* modbus_serial, lines 534-545: normalise the new serial number, write
\* it (modbus_req issues nothing for a model without the register), then
\* call modbus_serial again
modbus_serial_set ==
  /\ pc = "modbus_serial_set"
  /\ LET new_serial_value ==
           IF Prefix(args.set_serial, 2) = "0x" THEN PyIntOfStr(args.set_serial, 16)
           ELSE IF Prefix(args.set_serial, 2) = "0b" THEN PyIntOfStr(args.set_serial, 2)
           ELSE PyIntOfStr(args.set_serial, 10)
         payload == PyInt(new_serial_value)
         supported == Supported("set_serial_no")
         check == IF supported THEN WriteCheck("set_serial_no", payload) ELSE "ok"
     IN IF check # "ok"
        THEN /\ Exit1(check)
             /\ UNCHANGED <<bus, depth>>
        ELSE /\ bus' = IF supported
                       THEN Append(bus, WriteRequest("set_serial_no", payload, args.unit_id))
                       ELSE bus
             /\ \/ /\ supported
                   /\ Exit1("transport_error")
                   /\ UNCHANGED depth
                \/ IF depth >= MaxRecursion
                   THEN /\ RecursionError
                        /\ UNCHANGED depth
                   ELSE /\ depth' = depth + 1
                        /\ pc' = "modbus_serial"
                        /\ UNCHANGED <<status, fatal>>
  /\ UNCHANGED <<args, reqVars, codecVars, sessionVars, dev_relay, voltage, relayVars, baudVars, unit_id>>

-----------------------------------------------------------------------------

Next ==
  \/ main_connect
  \/ voltage_test
  \/ modbus_req_alot
  \/ modbus_relay
  \/ modbus_relay_serial
  \/ modbus_relay_set
  \/ modbus_relay_confirm
  \/ modbus_baudrate
  \/ modbus_baudrate_set
  \/ modbus_unit_id
  \/ modbus_unit_id_set
  \/ modbus_serial
  \/ modbus_serial_set
  \/ main_close

Spec == Init /\ [][Next]_vars

-----------------------------------------------------------------------------
(* One call of modbus_req, lines 129-324, on a connected session.           *)

\* every register name of the catalog, and one that no model has
RegisterNames ==
  UNION {DOMAIN meter_regs[m] : m \in MeterModels} \cup {"no_such_register"}

\* payloads handed to modbus_req: none, the numbers 0 and 3, the empty list
\* and a [key, state value] pair
PayloadSamples == {PyNone, PyInt(0), PyInt(3), PyList(<<>>), PyList(<<4128, 21845>>)}

\* register words a meter answers a read with
ResponseRegs(register_name) ==
  LET d == mregs[register_name]
  IN IF d[5] = "F32" THEN {<<17136, 0>>, <<16384, 0>>}
     ELSE IF d[3] = 1 THEN {<<21845>>, <<1>>}
     ELSE {<<18, 13312>>, <<4660, 22136>>}

\* the call under way: any model, any register name, any payload; numbers
\* only where the register is encoded as F32 or U32, as the callers do
InitReq ==
  /\ args \in {a \in ArgsSet :
                 /\ a.transport # "none"
                 /\ ~a.curious /\ ~a.get_relay /\ ~a.get_baudrate
                 /\ ~a.get_unit_id /\ ~a.get_serial
                 /\ a.set_relay = "False" /\ a.set_baudrate = "None"
                 /\ a.set_unit_id = 0 /\ a.set_serial = ""}
  /\ pc = "modbus_req"
  /\ status = "running"
  /\ fatal = ""
  /\ bus = <<>>
  /\ sessions = <<connect(0)>>
  /\ client = 1
  /\ dev_relay = 0
  /\ voltage = -1
  /\ set_state = "None"
  /\ cur_state = "None"
  /\ serial_no = -1
  /\ key = -1
  /\ relay_result = "None"
  /\ baudrate = -1
  /\ read_only = FALSE
  /\ unit_id = 0
  /\ depth = 0
  /\ req \in {r \in [register_name : RegisterNames, payload : PayloadSamples] :
                (/\ Supported(r.register_name)
                 /\ mregs[r.register_name][5] \in {"F32", "U32"})
                => r.payload.kind # "list"}
  /\ reading = NoReading
  /\ arg = NoArg
  /\ result = <<>>

\* modbus_req(args, register_name, client, payload), lines 129-324
modbus_req ==
  /\ pc = "modbus_req"
  /\ LET register_name == req.register_name
         function_code == mregs[register_name][1]
     IN IF ~Supported(register_name)
        THEN /\ reading' = NotSupportedReading
             /\ pc' = "returned"
             /\ UNCHANGED <<status, fatal, bus>>
        ELSE IF function_code \in {3, 4}
        THEN /\ bus' = Append(bus, ReadRequest(register_name, args.unit_id))
             /\ \/ /\ Exit1("transport_error")
                   /\ UNCHANGED reading
                \/ \E regs \in ResponseRegs(register_name) :
                     /\ reading' = Reading(register_name, regs)
                     /\ pc' = "returned"
                     /\ UNCHANGED <<status, fatal>>
        ELSE IF function_code = 16
        THEN LET check == WriteCheck(register_name, req.payload)
             IN IF check # "ok"
                THEN /\ Exit1(check)
                     /\ UNCHANGED <<bus, reading>>
                ELSE /\ bus' = Append(bus, WriteRequest(register_name, req.payload,
                                                        args.unit_id))
                     /\ \/ /\ Exit1("transport_error")
                           /\ UNCHANGED reading
                        \/ /\ reading' = Reading(register_name, <<>>)
                           /\ pc' = "returned"
                           /\ UNCHANGED <<status, fatal>>
        ELSE /\ Exit1("unsupported_function_code")
             /\ UNCHANGED <<bus, reading>>
  /\ UNCHANGED <<args, req, codecVars, sessionVars, dev_relay, voltage, relayVars, baudVars, unitVars>>

NextReq == modbus_req

SpecReq == InitReq /\ [][NextReq]_vars

-----------------------------------------------------------------------------
(* The value codec applied to sampled inputs: an integer encoded with      *)
(* reverse_u32 and decoded with u32; two words decoded with ieee754,        *)
(* encoded with reverse_ieee754 and decoded again; a word list rendered     *)
(* with binary.                                                             *)

\* the longest word list handed to binary
MaxWords == 3

\* integers below 2^31
U32Ints ==
  {0, 1, 255, 256, 4660, 65535, 65536, 65537, 16777216, 305419896,
   2147418112, 2147483647}

\* format(n, '032b') of integers n from 2^31 to 2^32 - 1, which are
\* carried as their 32 digits: 2^31, 2^31 + 1, 0x8000ffff, 0xdeadbeef,
\* 0xffff0000, 2^32 - 1
U32Digits ==
  {"10000000000000000000000000000000", "10000000000000000000000000000001",
   "10000000000000001111111111111111", "11011110101011011011111011101111",
   "11111111111111110000000000000000", "11111111111111111111111111111111"}

\* the two words are a NaN: exponent 255 and a fraction other than 0
IsNaNWords(words) ==
  /\ (words[1] % 32768) \div 128 = 255
  /\ (words[1] % 128 # 0 \/ words[2] # 0)

\* word pairs of float32 patterns: zeros, denormals, the smallest and the
\* largest normal numbers, 1.0, 120.0, 225.0, negative numbers, infinities
FloatWords ==
  {w \in {0, 127, 128, 16256, 17136, 17249, 32639, 32640, 32768, 32896, 49024,
           65407, 65408} \X {0, 1, 4660, 32768, 65535} : ~IsNaNWords(w)}

\* the sequences over S of length at most n
RECURSIVE SeqsUpTo(_, _)
SeqsUpTo(S, n) ==
  IF n = 0 THEN {<<>>}
  ELSE LET shorter == SeqsUpTo(S, n - 1)
       IN shorter \cup {Append(q, x) : q \in shorter, x \in S}

WordLists == SeqsUpTo({0, 1, 257, 65535}, MaxWords)

InitCodec ==
  /\ args \in {a \in ArgsSet :
                 /\ a.meter_model = "EM115" /\ a.transport = "none"
                 /\ ~a.curious /\ ~a.get_relay /\ ~a.get_baudrate
                 /\ ~a.get_unit_id /\ ~a.get_serial
                 /\ a.set_relay = "False" /\ a.set_baudrate = "None"
                 /\ a.set_unit_id = 0 /\ a.set_serial = ""}
  /\ status = "running"
  /\ fatal = ""
  /\ bus = <<>>
  /\ sessions = <<>>
  /\ client = 0
  /\ dev_relay = 0
  /\ voltage = -1
  /\ set_state = "None"
  /\ cur_state = "None"
  /\ serial_no = -1
  /\ key = -1
  /\ relay_result = "None"
  /\ baudrate = -1
  /\ read_only = FALSE
  /\ unit_id = 0
  /\ depth = 0
  /\ req = NoReq
  /\ reading = NoReading
  /\ arg \in {[fn |-> "u32", kind |-> "int", v |-> n] : n \in U32Ints}
             \cup {[fn |-> "u32", kind |-> "digits", v |-> d] : d \in U32Digits}
             \cup {[fn |-> "ieee754", kind |-> "list", v |-> w] : w \in FloatWords}
             \cup {[fn |-> "binary", kind |-> "list", v |-> w] : w \in WordLists}
  /\ pc = (IF arg.fn = "u32" THEN "reverse_u32" ELSE arg.fn)
  /\ result = <<>>

codecFrame ==
  <<args, status, fatal, bus, sessionVars, dev_relay, voltage, relayVars, baudVars,
    unitVars, reqVars, arg>>

\* reverse_u32(integer_value), lines 53-60; an integer from 2^31 on enters
\* as its 32 digits, after line 56
reverse_u32_call ==
  /\ pc = "reverse_u32"
  /\ result' = Append(result, IF arg.kind = "int" THEN reverse_u32(arg.v)
                              ELSE SplitWords(arg.v))
  /\ pc' = "u32"
  /\ UNCHANGED codecFrame

\* u32(value_list), lines 48-50; for the words of an integer from 2^31 on
\* the result is left as the digits int() is applied to
u32_call ==
  /\ pc = "u32"
  /\ result' = Append(result, IF arg.kind = "int" THEN u32(result[Len(result)])
                              ELSE JoinWords(result[Len(result)]))
  /\ pc' = "returned"
  /\ UNCHANGED codecFrame

\* ieee754(value_list), lines 29-33, on the sampled words and again on the
\* words reverse_ieee754 made
ieee754_call ==
  /\ pc \in {"ieee754", "ieee754_again"}
  /\ result' = Append(result, ieee754(IF pc = "ieee754" THEN arg.v
                                      ELSE result[Len(result)]))
  /\ pc' = (IF pc = "ieee754" THEN "reverse_ieee754" ELSE "returned")
  /\ UNCHANGED codecFrame

\* reverse_ieee754(float_value), lines 36-45
reverse_ieee754_call ==
  /\ pc = "reverse_ieee754"
  /\ result' = Append(result, reverse_ieee754(result[Len(result)]))
  /\ pc' = "ieee754_again"
  /\ UNCHANGED codecFrame

\* binary(value_list), lines 69-71
binary_call ==
  /\ pc = "binary"
  /\ result' = Append(result, binary(arg.v))
  /\ pc' = "returned"
  /\ UNCHANGED codecFrame

NextCodec ==
  \/ reverse_u32_call
  \/ u32_call
  \/ ieee754_call
  \/ reverse_ieee754_call
  \/ binary_call

SpecCodec == InitCodec /\ [][NextCodec]_vars

-----------------------------------------------------------------------------
(* Reading the bus log.                                                     *)

IsWrite(r) == r.op = "write_registers"
Writes == SelectSeq(bus, IsWrite)

TypeOK ==
  /\ pc \in {"main", "voltage_test", "modbus_req_alot", "modbus_relay",
             "modbus_relay_serial", "modbus_relay_set", "modbus_relay_confirm",
             "modbus_baudrate", "modbus_baudrate_set", "modbus_unit_id",
             "modbus_unit_id_set", "modbus_serial", "modbus_serial_set",
             "close", "done"}
  /\ status \in {"running", "exit0", "exit1", "traceback"}
  /\ (pc = "done") = (status # "running")

\* the writes to one register
WritesTo(register_name) ==
  SelectSeq(bus, LAMBDA r : IsWrite(r) /\ r.reg = register_name)

\* bit b of a non-negative integer
Bit(x, b) == (x \div Pow2(b)) % 2

\* ((sn >> 24) + (sn >> 8)) AND 0x1234, bit by bit: 0x1234 has exactly the
\* bits 2, 4, 5, 9 and 12
KeyOf(sn) ==
  LET t == (sn \div 16777216) + (sn \div 256)
  IN Bit(t, 2) * 4 + Bit(t, 4) * 16 + Bit(t, 5) * 32 + Bit(t, 9) * 512
     + Bit(t, 12) * 4096

\* the number of requests main has issued before it enters modbus_relay:
\* the L1V read and, in curious mode, one read per catalogued name
BeforeRelay ==
  1 + (IF args.curious
       THEN Cardinality({i \in 1..Len(reg_names) : Supported(reg_names[i])})
       ELSE 0)

\* within 10% of a nominal voltage, bounds included (1/128 V units)
Within10(v, nominal) ==
  /\ 10 * (nominal * 128 - v) <= nominal * 128
  /\ 10 * (v - nominal * 128) <= nominal * 128

Plausible(v) == Within10(v, 115) \/ Within10(v, 230)

-----------------------------------------------------------------------------
(* Claims.                                                                  *)

\* C1: a run that only asks to read the relay state (--get-relay without
\* --set-relay) never writes to the set_relay_state register.
C1_GetRelayNeverWrites ==
  (args.get_relay /\ args.set_relay = "False") => WritesTo("set_relay_state") = <<>>

\* C2: when the requested state ('on' or 'off') equals the state read from
\* the meter, modbus_relay issues the relay_state read and nothing else (no
\* write, no serial-number read), leaves the relay alone and returns the
\* current state.
C2_RelayNoOp ==
  [][ ( /\ pc = "modbus_relay"
        /\ pc' # "done"
        /\ \/ args.set_relay \in {"on", "1"} /\ dev_relay = 21845
           \/ args.set_relay \in {"off", "0"} /\ dev_relay = 43690 )
      => ( /\ Len(bus') = Len(bus) + 1
           /\ bus'[Len(bus')].reg = "relay_state"
           /\ bus'[Len(bus')].op = "read_input_registers"
           /\ relay_result' = (IF dev_relay = 21845 THEN "on" ELSE "off")
           /\ pc' \notin {"modbus_relay_serial", "modbus_relay_set", "modbus_relay_confirm"}
           /\ dev_relay' = dev_relay ) ]_vars

\* C2 witness: --set-relay on or off was given, modbus_relay has returned
\* that very state, and no write is on the bus.
C2_Witness ==
  /\ args.set_relay \in {"on", "off"}
  /\ relay_result = args.set_relay
  /\ Writes = <<>>
  /\ Len(bus) = BeforeRelay + 1
  /\ bus[Len(bus)].reg = "relay_state"

\* C3 as stated: for serial number 0x12345678 the key is 0x1230, and a
\* request for 'on' writes [0x1230, 21845].
C3_KeyExample_0x1230 ==
  (serial_no = 305419896 /\ key # -1) =>
     /\ key = 4656
     /\ (set_state = "on" =>
           \A i \in 1..Len(bus) :
              bus[i].reg = "set_relay_state" => bus[i].values = <<4656, 21845>>)

\* C3 amended: for serial number 0x12345678 the key is 0x1020, and a
\* request for 'on' on a meter whose relay is off writes exactly
\* [0x1020, 21845] to the relay-set register (address 0x566).
C3_KeyExample_0x1020 ==
  (serial_no = 305419896 /\ key # -1) =>
     /\ key = 4128
     /\ (set_state = "on" =>
           \A i \in 1..Len(bus) :
              bus[i].reg = "set_relay_state" =>
                 /\ bus[i].values = <<4128, 21845>>
                 /\ bus[i].address = 1382
                 /\ bus[i].op = "write_registers")

\* C3 witness: serial number 0x12345678 was read, 'on' was asked for and
\* the write [0x1020, 21845] is on the bus.
C3_Witness ==
  /\ serial_no = 305419896
  /\ args.set_relay = "on"
  /\ WritesTo("set_relay_state") # <<>>
  /\ WritesTo("set_relay_state")[1].values = <<4128, 21845>>

\* C4: the key computed from a serial number sn is ((sn >> 24) + (sn >> 8))
\* AND 0x1234, a 16-bit value whose set bits are all set bits of 0x1234.
C4_KeyFormula ==
  key # -1 =>
     /\ key = KeyOf(serial_no)
     /\ key \in 0..65535
     /\ \A b \in 0..15 : Bit(key, b) = 1 => b \in {2, 4, 5, 9, 12}

\* C4 witness: for serial number 0x00FFFF00 the sum is 0xFFFF and the key
\* is the whole mask 0x1234.
C4_Witness ==
  /\ serial_no = 16776960
  /\ key = 4660

\* C5: a relay state change issues, in this order, a read of relay_state, a
\* read of serial_no, one write to the relay-set register 0x566 of
\* [key, state code] with the key of the serial number just read and the
\* code on=21845, off=43690, auto=34952, and a confirming read of
\* relay_state; there is never a second write.
C5_RelayChangeOrder ==
  LET k == BeforeRelay
      IsReadState(r) ==
        /\ r.op = "read_input_registers" /\ r.reg = "relay_state"
        /\ r.address = 1382 /\ r.count = 1
      IsReadSerial(r) ==
        /\ r.op = "read_input_registers" /\ r.reg = "serial_no"
        /\ r.address = 65280 /\ r.count = 2
      IsRelayWrite(r) ==
        /\ r.op = "write_registers" /\ r.reg = "set_relay_state"
        /\ r.address = 1382 /\ Len(r.values) = 2
        /\ r.values[2] \in {21845, 43690, 34952}
        /\ (args.set_relay = "on" => r.values[2] = 21845)
        /\ (args.set_relay = "off" => r.values[2] = 43690)
        /\ (args.set_relay = "auto" => r.values[2] = 34952)
  IN /\ Len(WritesTo("set_relay_state")) <= 1
     /\ pc = "modbus_relay_serial" =>
          Len(bus) = k + 1 /\ IsReadState(bus[k + 1])
     /\ pc = "modbus_relay_set" =>
          Len(bus) = k + 2 /\ IsReadState(bus[k + 1]) /\ IsReadSerial(bus[k + 2])
     /\ pc = "modbus_relay_confirm" =>
          /\ Len(bus) = k + 3
          /\ bus[k + 3].values[1] = KeyOf(serial_no)
     /\ WritesTo("set_relay_state") # <<>> =>
          /\ Len(bus) >= k + 3
          /\ IsReadState(bus[k + 1])
          /\ IsReadSerial(bus[k + 2])
          /\ IsRelayWrite(bus[k + 3])
          /\ \A i \in 1..Len(bus) : bus[i].reg = "set_relay_state" => i = k + 3
          /\ (relay_result # "None" => Len(bus) >= k + 4 /\ IsReadState(bus[k + 4]))

\* C5 witness: a change from off to on has completed: four requests ending
\* with the confirming read, the write third.
C5_Witness ==
  /\ args.set_relay = "on"
  /\ relay_result = "on"
  /\ Len(WritesTo("set_relay_state")) = 1
  /\ Len(bus) >= BeforeRelay + 4
  /\ bus[BeforeRelay + 3].reg = "set_relay_state"
  /\ bus[BeforeRelay + 3].values[2] = 21845
  /\ bus[BeforeRelay + 4].reg = "relay_state"

\* C6: a phase-1 voltage is accepted exactly when it lies within 10% of
\* 115 V or within 10% of 230 V, and is fatal otherwise.
C6_VoltageAcceptedIffPlausible ==
  voltage # -1 => ((fatal # "voltage_out_of_range") <=> Plausible(voltage))

\* C7: the L1V read is the first bus request of every run, and a run whose
\* voltage is implausible ends with a non-zero status after that one request.
C7_VoltageFirstAndFatal ==
  /\ bus # <<>> => bus[1].reg = "L1V"
  /\ (voltage # -1 /\ ~Plausible(voltage)) => (status = "exit1" /\ Len(bus) = 1)

\* C8: on an Eastron meter --set-baudrate R aborts for no supported rate
\* before the write, and the one write to set_baudrate carries the index i
\* with table[i] = R, the table being 0:2400 1:4800 2:9600 3:19200 4:38400
\* 5:1200.
C8_EastronBaudrateWrite ==
  LET table == <<2400, 4800, 9600, 19200, 38400, 1200>>
      index == [R \in {"2400", "4800", "9600", "19200", "38400", "1200"} |->
                  CASE R = "2400" -> 0 [] R = "4800" -> 1 [] R = "9600" -> 2
                    [] R = "19200" -> 3 [] R = "38400" -> 4 [] R = "1200" -> 5]
      \* the float32 words of 0.0 .. 5.0
      words == <<<<0, 0>>, <<16256, 0>>, <<16384, 0>>, <<16448, 0>>,
                 <<16512, 0>>, <<16544, 0>>>>
  IN (Prefix(args.meter_model, 3) = "SDM" /\ args.set_baudrate # "None") =>
        /\ fatal # "missing_payload"
        /\ Len(WritesTo("set_baudrate")) <= 1
        /\ \A i \in 1..Len(bus) :
              bus[i].reg = "set_baudrate" =>
                 bus[i].values = words[index[args.set_baudrate] + 1]
        /\ (pc \in {"modbus_unit_id", "modbus_serial", "close"} \/ status = "exit0")
              => Len(WritesTo("set_baudrate")) = 1

\* C9: with a new unit id requested, modbus_unit_id writes the new bus
\* address exactly once, re-queries unit_id once at the new address and
\* returns; it never writes a second time and never recurses without bound.
C9_UnitIdSingleWrite ==
  args.set_unit_id # 0 =>
     /\ Len(WritesTo("set_unit_id")) <= 1
     /\ fatal # "RecursionError"
     /\ Len(SelectSeq(bus, LAMBDA r : r.reg = "unit_id" /\ r.unit = args.set_unit_id)) <= 1

\* C10: with a new serial number requested on a Fineco meter, modbus_serial
\* writes the normalized serial number exactly once, re-reads the three
\* serial-number registers once and returns.
C10_SerialSingleWrite ==
  (Prefix(args.meter_model, 2) = "EM" /\ args.set_serial # "") =>
     /\ Len(WritesTo("set_serial_no")) <= 1
     /\ fatal # "RecursionError"
     /\ \A i \in 1..Len(bus) :
           bus[i].reg = "set_serial_no" =>
              /\ Len(bus) - i <= 3
              /\ \A j \in (i + 1)..Len(bus) : bus[j].op # "write_registers"

\* the rate a --set-baudrate option asks for
RequestedRate ==
  CASE args.set_baudrate = "1200" -> 1200 [] args.set_baudrate = "2400" -> 2400
    [] args.set_baudrate = "4800" -> 4800 [] args.set_baudrate = "9600" -> 9600
    [] args.set_baudrate = "19200" -> 19200 [] args.set_baudrate = "38400" -> 38400
    [] OTHER -> 0

\* the positions of the writes to set_baudrate in the bus log
BaudrateWrites == {i \in 1..Len(bus) : bus[i].reg = "set_baudrate"}

\* the write to set_baudrate at position w came back as an error
WriteFailed(w) == status = "exit1" /\ Len(bus) = w

\* C11: setting a baud rate over a serial line is, in this order, one write
\* on the current session, the close of that session, the opening of a new
\* session at the new rate and one read of the baudrate register on the new
\* session; there is no second write, the closed session carries no later
\* request, and every later request and the final close use the new session.
C11_BaudrateSerialReopen ==
  (args.transport = "serial" /\ args.set_baudrate # "None") =>
     /\ Cardinality(BaudrateWrites) <= 1
     /\ Len(sessions) <= 2
     /\ (BaudrateWrites = {} => Len(sessions) <= 1)
     /\ \A w \in BaudrateWrites :
           /\ \A i \in 1..w : bus[i].client = 1
           /\ \A i \in (w + 1)..Len(bus) : bus[i].client = 2
           /\ Len(bus) > w =>
                 /\ bus[w + 1].reg = "baudrate"
                 /\ bus[w + 1].op \in {"read_holding_registers", "read_input_registers"}
           /\ \A i \in (w + 2)..Len(bus) : bus[i].reg \notin {"baudrate", "set_baudrate"}
           /\ IF WriteFailed(w)
              THEN sessions = <<[kind |-> "serial", baudrate |-> args.baudrate,
                                 open |-> TRUE, closes |-> 0]>>
              ELSE /\ Len(sessions) = 2
                   /\ client = 2
                   /\ sessions[1] = [kind |-> "serial", baudrate |-> args.baudrate,
                                     open |-> FALSE, closes |-> 1]
                   /\ sessions[2].kind = "serial"
                   /\ sessions[2].baudrate = RequestedRate
                   /\ sessions[2].open = (status # "exit0")
                   /\ sessions[2].closes = (IF status = "exit0" THEN 1 ELSE 0)
           /\ status = "exit0" => Len(bus) > w

\* a run over a serial line that set 19200 baud, read the unit id on the
\* reopened session and ended normally
C11_Witness ==
  /\ args.transport = "serial"
  /\ args.set_baudrate = "19200"
  /\ args.get_unit_id
  /\ status = "exit0"
  /\ Len(sessions) = 2
  /\ sessions[2].baudrate = 19200
  /\ \E w \in BaudrateWrites :
        /\ Len(bus) >= w + 2
        /\ bus[w + 1].reg = "baudrate"
        /\ bus[w + 2].reg = "unit_id"
        /\ bus[w + 2].client = 2

\* C12: setting a baud rate through a gateway (--host) issues the write and
\* leaves the session alone: it is neither closed nor reopened, no read of
\* the baudrate register follows the write, and modbus_baudrate returns the
\* session it was given together with the requested rate.
C12_BaudrateGatewayKeepsSession ==
  (args.transport = "host" /\ args.set_baudrate # "None") =>
     /\ Cardinality(BaudrateWrites) <= 1
     /\ Len(sessions) <= 1
     /\ \A i \in 1..Len(bus) : bus[i].client = 1
     /\ \A w \in BaudrateWrites :
           /\ client = 1
           /\ \A i \in (w + 1)..Len(bus) : bus[i].reg \notin {"baudrate", "set_baudrate"}
           /\ sessions[1].kind = "tcp"
           /\ sessions[1].open = (status # "exit0")
           /\ sessions[1].closes = (IF status = "exit0" THEN 1 ELSE 0)
           /\ ~WriteFailed(w) => baudrate = RequestedRate

\* a run through a gateway that set 19200 baud, went on to read the unit id
\* and ended normally
C12_Witness ==
  /\ args.transport = "host"
  /\ args.set_baudrate = "19200"
  /\ args.get_unit_id
  /\ status = "exit0"
  /\ baudrate = 19200
  /\ Len(sessions) = 1
  /\ \E w \in BaudrateWrites :
        /\ Len(bus) = w + 1
        /\ bus[w + 1].reg = "unit_id"

\* C13: when the process has ended, normally or on a fatal condition, every
\* session it opened (the first one and the one reopened after a baud-rate
\* change) has been closed exactly once; no session is ever closed twice.
C13_SessionsClosedOnce ==
  /\ \A i \in 1..Len(sessions) : sessions[i].closes <= 1
  /\ status # "running" =>
        \A i \in 1..Len(sessions) : ~sessions[i].open /\ sessions[i].closes = 1

\* the call of modbus_req is over: it returned or ended the process
CallOver == pc \in {"returned", "done"}

\* C14: for every model and every register name absent from the model's
\* catalog, modbus_req returns a reading with no value and the info text
\* 'Not supported for this model', puts no request on the bus and does not
\* end the process.
C14_UnsupportedRegisterReading ==
  (CallOver /\ req.register_name \notin DOMAIN meter_regs[args.meter_model]) =>
     /\ pc = "returned"
     /\ status = "running"
     /\ fatal = ""
     /\ bus = <<>>
     /\ ~reading.has_value
     /\ reading.info_text = "Not supported for this model"

\* relay_state asked of an SDM630, which has no such register, and answered
C14_Witness ==
  /\ pc = "returned"
  /\ args.meter_model = "SDM630"
  /\ req.register_name = "relay_state"
  /\ reading.info_text = "Not supported for this model"

\* C15: a call of modbus_req for a register written with function code 16
\* and no payload handed over ends the process with the missing-payload
\* error and a non-zero status, and no write is put on the bus.
C15_MissingPayloadIsFatal ==
  LET catalog == meter_regs[args.meter_model]
  IN ( /\ CallOver
       /\ req.register_name \in DOMAIN catalog
       /\ catalog[req.register_name][1] = 16
       /\ req.payload = PyNone )
     => /\ status = "exit1"
        /\ fatal = "missing_payload"
        /\ bus = <<>>

\* set_relay_state of an EM115 requested without payload, and refused
C15_Witness ==
  /\ pc = "done"
  /\ args.meter_model = "EM115"
  /\ req.register_name = "set_relay_state"
  /\ req.payload = PyNone
  /\ fatal = "missing_payload"

\* C16: once a request on the bus has come back as an error, the run is
\* over with a non-zero status: the request is not repeated and no step of
\* the program, hence no further request, can follow.
C16_TransportErrorAborts ==
  fatal = "transport_error" =>
     /\ status = "exit1"
     /\ pc = "done"
     /\ ~ENABLED Next

\* the write of a new baud rate came back as an error: the run ended there,
\* and the unit id that was also asked for was never read
C16_Witness ==
  /\ fatal = "transport_error"
  /\ args.get_unit_id
  /\ Len(bus) >= 3
  /\ bus[Len(bus)].reg = "set_baudrate"
  /\ \A i \in 1..Len(bus) : bus[i].reg # "unit_id"

\* C17: get_relay_state takes '0101010101010101' for on and
\* '1010101010101010' for off; every other value, the absent one included,
\* is fatal, so that a run whose first state read is not recognised never
\* gets to the serial-number read, the relay write or the confirming read.
C17_RelayStateRecognised ==
  /\ get_relay_state("0101010101010101") = "on"
  /\ get_relay_state("1010101010101010") = "off"
  /\ get_relay_state("None") = "unknown"
  /\ pc \in {"modbus_relay_serial", "modbus_relay_set"} =>
        \/ cur_state = "on" /\ dev_relay = 21845
        \/ cur_state = "off" /\ dev_relay = 43690
  /\ ( /\ args.get_relay \/ args.set_relay # "False"
       /\ dev_relay \notin {21845, 43690}
       /\ WritesTo("set_relay_state") = <<>> )
     => /\ pc \in {"main", "voltage_test", "modbus_req_alot", "modbus_relay", "done"}
        /\ status # "exit0"
        /\ Len(bus) <= BeforeRelay + 1
        /\ (Len(bus) = BeforeRelay + 1 /\ fatal # "transport_error")
              => (status = "exit1" /\ fatal = "relay_state_unknown")

\* 'on' requested of a meter whose relay word is 0x8888: the run ended on
\* the unrecognised state without a write
C17_Witness ==
  /\ args.set_relay = "on"
  /\ dev_relay = 34952
  /\ fatal = "relay_state_unknown"
  /\ Len(bus) = BeforeRelay + 1
  /\ bus[Len(bus)].reg = "relay_state"
  /\ Writes = <<>>

\* C18: on a model whose name does not start with 'EM' (SDM72, SDM120,
\* SDM230, SDM630) a request to read or set the relay ends the run with the
\* unsupported-model error before modbus_relay has put any request on the
\* bus: the bus log holds what main issued before it and nothing more.
C18_RelayUnsupportedModel ==
  ( /\ args.meter_model \in {"SDM72", "SDM120", "SDM230", "SDM630"}
    /\ args.get_relay \/ args.set_relay # "False" )
  => /\ pc \in {"main", "voltage_test", "modbus_req_alot", "modbus_relay", "done"}
     /\ status # "exit0"
     /\ Len(bus) <= BeforeRelay
     /\ Writes = <<>>
     /\ (pc = "done" /\ Len(bus) = BeforeRelay /\ fatal # "transport_error")
           => (status = "exit1" /\ fatal = "relay_unsupported_model")

\* 'on' requested of an SDM120: refused with the voltage read as the only
\* request on the bus
C18_Witness ==
  /\ args.meter_model = "SDM120"
  /\ args.set_relay = "on"
  /\ ~args.curious
  /\ fatal = "relay_unsupported_model"
  /\ Len(bus) = 1
  /\ bus[1].reg = "L1V"

\* the state a --set-relay option asks for
RequestedState ==
  IF args.set_relay \in {"on", "1"} THEN "on"
  ELSE IF args.set_relay \in {"off", "0"} THEN "off"
  ELSE args.set_relay

\* where main goes on after modbus_relay has returned
StageAfterRelay ==
  IF args.get_baudrate \/ args.set_baudrate # "None" THEN "modbus_baudrate"
  ELSE IF args.get_unit_id \/ args.set_unit_id # 0 THEN "modbus_unit_id"
  ELSE IF args.get_serial \/ args.set_serial # "" THEN "modbus_serial"
  ELSE "close"

\* C19: when the state read back after the relay write is a recognised
\* state other than the requested one, this is a warning only: modbus_relay
\* returns the state it read, the run is not aborted and main goes on with
\* the next requested operation; a run that ends normally has issued the
\* reads of every operation requested after the relay and has closed its
\* session.
C19_RelayMismatchIsWarning ==
  /\ [][ ( /\ pc = "modbus_relay_confirm"
           /\ args.set_relay # "False"
           /\ dev_relay \in {21845, 43690}
           /\ RequestedState # (IF dev_relay = 21845 THEN "on" ELSE "off")
           /\ fatal' # "transport_error" )
         => ( /\ status' = "running"
              /\ fatal' = ""
              /\ relay_result' = (IF dev_relay = 21845 THEN "on" ELSE "off")
              /\ pc' = StageAfterRelay
              /\ sessions' = sessions ) ]_vars
  /\ [] ( (status = "exit0" /\ args.set_relay # "False") =>
             /\ \A i \in 1..Len(sessions) : ~sessions[i].open /\ sessions[i].closes = 1
             /\ args.get_baudrate => \E i \in 1..Len(bus) : bus[i].reg = "baudrate"
             /\ args.get_unit_id => \E i \in 1..Len(bus) : bus[i].reg = "unit_id"
             /\ args.get_serial => \E i \in 1..Len(bus) : bus[i].reg = "serial_no_hex" )

\* 'on' was written, the meter still reports off: the run went on to read
\* the unit id, closed its session and ended with status 0
C19_Witness ==
  /\ args.set_relay = "on"
  /\ args.get_unit_id
  /\ WritesTo("set_relay_state") # <<>>
  /\ relay_result = "off"
  /\ status = "exit0"
  /\ bus[Len(bus)].reg = "unit_id"
  /\ sessions[1].closes = 1

\* C20: with a new serial number requested on a model that is not a Fineco
\* meter, modbus_serial ends the run with the unsupported-model error: the
\* run never reaches the write, no write is put on the bus, and the run
\* cannot end normally.
C20_SerialUnsupportedModel ==
  ( /\ args.meter_model \in {"SDM72", "SDM120", "SDM230", "SDM630"}
    /\ args.set_serial # "" )
  => /\ Writes = <<>>
     /\ pc \notin {"modbus_serial_set", "close"}
     /\ status \in {"running", "exit1"}
     /\ fatal \in {"", "no_transport", "transport_error", "relay_unsupported_model",
                   "baudrate_unmappable", "serial_unsupported_model"}
     /\ depth = 0

\* a new serial number requested of an SDM120: its serial number was read,
\* the request refused, nothing written
C20_Witness ==
  /\ args.meter_model = "SDM120"
  /\ args.set_serial = "1234"
  /\ fatal = "serial_unsupported_model"
  /\ status = "exit1"
  /\ bus[Len(bus)].reg \in {"serial_no", "serial_no_bin", "serial_no_hex"}
  /\ Writes = <<>>

\* C21: in the register catalog, for each of the six models and every
\* entry, the word count matches the encoding: F32 and U32 entries have
\* word count 2, U16 entries word count 1; so has the catalog modbus_req
\* selects for the model of the call, and so has every read it puts on the
\* bus.
C21_WordCountMatchesEncoding ==
  /\ \A m \in MeterModels : \A n \in DOMAIN meter_regs[m] :
        LET d == meter_regs[m][n]
        IN /\ d[5] \in {"F32", "U32"} => d[3] = 2
           /\ d[5] = "U16" => d[3] = 1
  /\ \A n \in DOMAIN mregs :
        /\ mregs[n][5] \in {"F32", "U32"} => mregs[n][3] = 2
        /\ mregs[n][5] = "U16" => mregs[n][3] = 1
  /\ \A i \in 1..Len(bus) :
        LET d == meter_regs[args.meter_model][bus[i].reg]
        IN bus[i].op \in {"read_holding_registers", "read_input_registers"} =>
              /\ d[5] \in {"F32", "U32"} => bus[i].count = 2
              /\ d[5] = "U16" => bus[i].count = 1

\* the U16 register unit_id of an EM737 read with one word and answered
C21_Witness ==
  /\ pc = "returned"
  /\ args.meter_model = "EM737"
  /\ req.register_name = "unit_id"
  /\ Len(bus) = 1
  /\ bus[1].count = 1
  /\ reading.has_value

\* C22: the relay registers relay_state and set_relay_state and the
\* serial-number write register set_serial_no are catalogued for exactly
\* the models EM115 and EM737, and set_unit_id for all six models; a call
\* of modbus_req for one of these names is answered 'Not supported for this
\* model' exactly where the catalog has no such entry.
C22_RelayAndSerialWriteModels ==
  LET fineco == {"EM115", "EM737"}
      names == {"relay_state", "set_relay_state", "set_serial_no"}
  IN /\ \A m \in MeterModels :
           /\ \A n \in names : (n \in DOMAIN meter_regs[m]) = (m \in fineco)
           /\ "set_unit_id" \in DOMAIN meter_regs[m]
     /\ \A n \in names : Supported(n) = (args.meter_model \in fineco)
     /\ Supported("set_unit_id")
     /\ (pc = "returned" /\ req.register_name \in names \cup {"set_unit_id"}) =>
           (reading.info_text = "Not supported for this model")
              = (req.register_name \in names /\ args.meter_model \notin fineco)

\* relay_state read from an EM115, and refused for an SDM72
C22_Witness ==
  /\ pc = "returned"
  /\ req.register_name = "relay_state"
  /\ \/ args.meter_model = "EM115" /\ reading.has_value
     \/ args.meter_model = "SDM72" /\ reading.info_text = "Not supported for this model"

\* the number a string of binary digits denotes, digit by digit from the
\* left: the digit at position i of n digits weighs 2^(n - i)
RECURSIVE WeightedDigits(_, _)
WeightedDigits(s, i) ==
  IF i > Len(s) THEN 0
  ELSE (IF SubSeq(s, i, i) = "1" THEN Pow2(Len(s) - i) ELSE 0) + WeightedDigits(s, i + 1)

IsWord(w) == w \in 0..65535

\* C23: for an integer n from 0 to 2^32 - 1, reverse_u32(n) is two words,
\* each from 0 to 65535, the high 16 bits first, and u32 of these words is
\* n again.  For n from 2^31 on, n is given by its 32 binary digits: the
\* words are the values of the first and the last 16 digits, and the
\* digits u32 hands to int() are those of n.
C23_U32RoundTrip ==
  (arg.fn = "u32" /\ Len(result) >= 1) =>
     LET words == result[1]
     IN /\ Len(words) = 2
        /\ IsWord(words[1]) /\ IsWord(words[2])
        /\ arg.kind = "int" =>
              /\ words[1] = arg.v \div 65536
              /\ words[2] = arg.v % 65536
        /\ arg.kind = "digits" =>
              /\ words[1] = WeightedDigits(SubSeq(arg.v, 1, 16), 1)
              /\ words[2] = WeightedDigits(SubSeq(arg.v, 17, 32), 1)
              /\ words[1] >= 32768
        /\ Len(result) = 2 => result[2] = arg.v

\* 0x12345678 encoded as [0x1234, 0x5678] and decoded again
C23_Witness ==
  /\ pc = "returned"
  /\ arg.fn = "u32"
  /\ arg.kind = "int"
  /\ arg.v = 305419896
  /\ result[1] = <<4660, 22136>>
  /\ result[2] = 305419896

\* C24: for two words that hold a float32 pattern other than a NaN,
\* reverse_ieee754(ieee754(words)) is the same two words, and for the float
\* f they decode to, ieee754(reverse_ieee754(f)) is f; word 0 is the high
\* half of the pattern: it holds the sign bit and the exponent.
C24_Float32RoundTrip ==
  (arg.fn = "ieee754" /\ Len(result) >= 1) =>
     LET f == result[1]
         e == (arg.v[1] % 32768) \div 128
     IN /\ f.kind # "nan"
        /\ f.neg = (arg.v[1] >= 32768)
        /\ (f.kind = "inf") = (e = 255)
        /\ (f.kind = "finite" /\ f.sig = 0) = (arg.v[1] % 32768 = 0 /\ arg.v[2] = 0)
        /\ Len(result) >= 2 => result[2] = arg.v
        /\ Len(result) = 3 => result[3] = f

\* the words [0x42F0, 0] decoded to 120.0 = 15 * 2^3, encoded and decoded
\* again
C24_Witness ==
  /\ pc = "returned"
  /\ arg.fn = "ieee754"
  /\ arg.v = <<17136, 0>>
  /\ result[1] = [kind |-> "finite", neg |-> FALSE, sig |-> 15, exp |-> 3]
  /\ result[2] = <<17136, 0>>
  /\ result[3] = result[1]

\* C25: binary([1, 257]) returns "0000000000000001" followed by
\* "0000000101000001".
C25_BinaryExample_0141 ==
  (arg.fn = "binary" /\ pc = "returned" /\ arg.v = <<1, 257>>) =>
     result[1] = "0000000000000001" \o "0000000101000001"

\* C25, amended: binary([1, 257]) returns "0000000000000001" followed by
\* "0000000100000001", the 16 binary digits of 257 = 0x0101.
C25_BinaryExample_0101 ==
  (arg.fn = "binary" /\ pc = "returned" /\ arg.v = <<1, 257>>) =>
     result[1] = "0000000000000001" \o "0000000100000001"

\* binary applied to [1, 257]
C25_Witness ==
  /\ arg.fn = "binary"
  /\ pc = "returned"
  /\ arg.v = <<1, 257>>
  /\ Len(result[1]) = 32

\* C26: for a list of words from 0 to 65535, binary(words) is the
\* concatenation, in the order of the words, of the 16-digit zero-padded
\* binary rendering of each word: it is 16 * len(words) characters long,
\* every character is '0' or '1', the k-th group of 16 digits denotes the
\* k-th word, and no other word list has the same rendering.
C26_BinaryRendering ==
  (arg.fn = "binary" /\ pc = "returned") =>
     LET out == result[1]
     IN /\ Len(out) = 16 * Len(arg.v)
        /\ \A i \in 1..Len(out) : SubSeq(out, i, i) \in {"0", "1"}
        /\ \A k \in 1..Len(arg.v) :
              WeightedDigits(SubSeq(out, 16 * (k - 1) + 1, 16 * k), 1) = arg.v[k]
        /\ \A other \in WordLists : binary(other) = out => other = arg.v

\* binary applied to the three words [65535, 0, 257]
C26_Witness ==
  /\ arg.fn = "binary"
  /\ pc = "returned"
  /\ arg.v = <<65535, 0, 257>>
  /\ result[1] = "1111111111111111" \o "0000000000000000" \o "0000000100000001"

\* main is past modbus_relay
PastRelay ==
  pc \in {"modbus_baudrate", "modbus_baudrate_set", "modbus_unit_id",
          "modbus_unit_id_set", "modbus_serial", "modbus_serial_set", "close"}
  \/ status = "exit0"

\* C29: a request for the state 'auto' is never confirmed: the state read
\* is only ever on or off, so modbus_relay never returns early on "nothing
\* to do", every call that returns has issued the one write [key, 34952]
\* between the serial-number read and the confirming read, and it returns
\* on or off, never auto.
C29_AutoNeverConfirmed ==
  /\ [][ (args.set_relay = "auto" /\ pc = "modbus_relay" /\ pc' # "done")
         => (pc' = "modbus_relay_serial" /\ cur_state' \in {"on", "off"}) ]_vars
  /\ [] ( args.set_relay = "auto" =>
            /\ relay_result \in {"None", "on", "off"}
            /\ cur_state \in {"None", "on", "off"}
            /\ PastRelay =>
                  /\ relay_result \in {"on", "off"}
                  /\ Len(WritesTo("set_relay_state")) = 1
                  /\ \E i \in 2..(Len(bus) - 1) :
                        /\ bus[i].reg = "set_relay_state"
                        /\ Len(bus[i].values) = 2
                        /\ bus[i].values[2] = 34952
                        /\ bus[i - 1].reg = "serial_no"
                        /\ bus[i + 1].reg = "relay_state" )

\* 'auto' written to a meter that was off and reports on afterwards: the
\* call returned on and the run ended normally
C29_Witness ==
  /\ args.set_relay = "auto"
  /\ status = "exit0"
  /\ relay_result = "on"
  /\ Len(WritesTo("set_relay_state")) = 1
  /\ WritesTo("set_relay_state")[1].values[2] = 34952


-----------------------------------------------------------------------------
(* The older variants meter_setuptool.py and meter_setuptools.py: one run   *)
(* of the main() of either file.  args.prog is the file that is run.  The   *)
(* float read from L1V is kept exactly in voltage, and a request record     *)
(* names the session it goes out on.                                        *)

\* meter_setuptool.py, lines 101-206: the catalog of modbus_req
setuptool_meter_regs ==
     "SDM72" :> (
         "kWh" :> <<4, 342, 2, "kWh", "F32">>
      @@ "imp_kWh" :> <<4, 72, 2, "kWh", "F32">>
      @@ "exp_kWh" :> <<4, 74, 2, "kWh", "F32">>
      @@ "power" :> <<4, 52, 2, "W", "F32">>
      @@ "L1A" :> <<4, 6, 2, "A", "F32">>
      @@ "L2A" :> <<4, 8, 2, "A", "F32">>
      @@ "L3A" :> <<4, 10, 2, "A", "F32">>
      @@ "L1V" :> <<4, 0, 2, "V", "F32">>
      @@ "L2V" :> <<4, 2, 2, "V", "F32">>
      @@ "L3V" :> <<4, 4, 2, "V", "F32">>
      @@ "Totpf" :> <<4, 62, 2, "", "F32">>
      @@ "TotHz" :> <<4, 70, 2, "Hz", "F32">>
      @@ "Serial_no" :> <<3, 64512, 2, "(integer)", "U32">>
      @@ "Serial_no_bin" :> <<3, 64512, 2, "(binary)", "bin">>
      @@ "Serial_no_hex" :> <<3, 64512, 2, "(hex)", "hex">>
      @@ "baudrate" :> <<3, 28, 2, "(integer)", "F32">>)
  @@ "SDM120" :> (
         "kWh" :> <<4, 342, 2, "kWh", "F32">>
      @@ "imp_kWh" :> <<4, 72, 2, "kWh", "F32">>
      @@ "exp_kWh" :> <<4, 74, 2, "kWh", "F32">>
      @@ "power" :> <<4, 52, 2, "W", "F32">>
      @@ "L1A" :> <<4, 6, 2, "A", "F32">>
      @@ "L1V" :> <<4, 0, 2, "V", "F32">>
      @@ "Totpf" :> <<4, 62, 2, "", "F32">>
      @@ "TotHz" :> <<4, 70, 2, "Hz", "F32">>
      @@ "Serial_no" :> <<3, 64512, 2, "(integer)", "U32">>
      @@ "Serial_no_bin" :> <<3, 64512, 2, "(binary)", "bin">>
      @@ "Serial_no_hex" :> <<3, 64512, 2, "(hex)", "hex">>
      @@ "baudrate" :> <<3, 28, 2, "(integer)", "F32">>)
  @@ "SDM230" :> (
         "kWh" :> <<4, 342, 2, "kWh", "F32">>
      @@ "imp_kWh" :> <<4, 72, 2, "kWh", "F32">>
      @@ "exp_kWh" :> <<4, 74, 2, "kWh", "F32">>
      @@ "power" :> <<4, 52, 2, "W", "F32">>
      @@ "L1A" :> <<4, 6, 2, "A", "F32">>
      @@ "L1V" :> <<4, 0, 2, "V", "F32">>
      @@ "Totpf" :> <<4, 62, 2, "", "F32">>
      @@ "TotHz" :> <<4, 70, 2, "Hz", "F32">>
      @@ "Serial_no" :> <<3, 64512, 2, "(integer)", "U32">>
      @@ "Serial_no_bin" :> <<3, 64512, 2, "(binary)", "bin">>
      @@ "Serial_no_hex" :> <<3, 64512, 2, "(hex)", "hex">>
      @@ "baudrate" :> <<3, 28, 2, "(integer)", "F32">>)
  @@ "SDM630" :> (
         "kWh" :> <<4, 342, 2, "kWh", "F32">>
      @@ "imp_kWh" :> <<4, 72, 2, "kWh", "F32">>
      @@ "exp_kWh" :> <<4, 74, 2, "kWh", "F32">>
      @@ "power" :> <<4, 52, 2, "W", "F32">>
      @@ "L1A" :> <<4, 6, 2, "A", "F32">>
      @@ "L2A" :> <<4, 8, 2, "A", "F32">>
      @@ "L3A" :> <<4, 10, 2, "A", "F32">>
      @@ "L1V" :> <<4, 0, 2, "V", "F32">>
      @@ "L2V" :> <<4, 2, 2, "V", "F32">>
      @@ "L3V" :> <<4, 4, 2, "V", "F32">>
      @@ "Totpf" :> <<4, 62, 2, "", "F32">>
      @@ "TotHz" :> <<4, 70, 2, "Hz", "F32">>
      @@ "Serial_no" :> <<3, 64512, 2, "(integer)", "U32">>
      @@ "Serial_no_bin" :> <<3, 64512, 2, "(binary)", "bin">>
      @@ "Serial_no_hex" :> <<3, 64512, 2, "(hex)", "hex">>
      @@ "baudrate" :> <<3, 28, 2, "(integer)", "F32">>)
  @@ "EM115" :> (
         "kWh" :> <<4, 362, 2, "kWh", "F32">>
      @@ "imp_kWh" :> <<4, 352, 2, "kWh", "F32">>
      @@ "exp_kWh" :> <<4, 358, 2, "kWh", "F32">>
      @@ "power" :> <<4, 8, 2, "W", "F32">>
      @@ "L1A" :> <<4, 6, 2, "A", "F32">>
      @@ "L2A" :> <<4, 0, 2, "A", "F32">>
      @@ "L3A" :> <<4, 0, 2, "A", "F32">>
      @@ "L1V" :> <<4, 2, 2, "V", "F32">>
      @@ "L2V" :> <<4, 0, 2, "V", "F32">>
      @@ "L3V" :> <<4, 0, 2, "V", "F32">>
      @@ "Totpf" :> <<4, 14, 2, "", "F32">>
      @@ "TotHz" :> <<4, 4, 2, "Hz", "F32">>
      @@ "Serial_no" :> <<4, 65280, 2, "(integer)", "U32">>
      @@ "Serial_no_bin" :> <<4, 65280, 2, "(binary)", "bin">>
      @@ "Serial_no_hex" :> <<4, 65280, 2, "(hex)", "hex">>
      @@ "relay_state" :> <<4, 1382, 1, "(01..=on, 10..=off)", "bin">>
      @@ "set_relay_state" :> <<16, 1382, 2, "", "">>
      @@ "baudrate" :> <<4, 1317, 1, "(integer)", "U16">>)
  @@ "EM737" :> (
         "kWh" :> <<4, 1792, 2, "kWh", "F32">>
      @@ "imp_kWh" :> <<4, 2048, 2, "kWh", "F32">>
      @@ "exp_kWh" :> <<4, 2304, 2, "kWh", "F32">>
      @@ "power" :> <<4, 38, 2, "W", "F32">>
      @@ "L1A" :> <<4, 22, 2, "A", "F32">>
      @@ "L2A" :> <<4, 24, 2, "A", "F32">>
      @@ "L3A" :> <<4, 26, 2, "A", "F32">>
      @@ "L1V" :> <<4, 16, 2, "V", "F32">>
      @@ "L2V" :> <<4, 18, 2, "V", "F32">>
      @@ "L3V" :> <<4, 20, 2, "V", "F32">>
      @@ "Totpf" :> <<4, 62, 2, "", "F32">>
      @@ "TotHz" :> <<4, 64, 2, "Hz", "F32">>
      @@ "Serial_no" :> <<4, 65280, 2, "(integer)", "U32">>
      @@ "Serial_no_bin" :> <<4, 65280, 2, "(binary)", "bin">>
      @@ "Serial_no_hex" :> <<4, 65280, 2, "(hex)", "hex">>
      @@ "relay_state" :> <<4, 1382, 1, "(01..=on, 10..=off)", "bin">>
      @@ "set_relay_state" :> <<16, 1382, 2, "", "">>
      @@ "baudrate" :> <<4, 1317, 1, "(integer)", "U16">>)

\* meter_setuptools.py, lines 100-155: the catalog of modbus_req
setuptools_meter_regs ==
     "Eastron" :> (
         "kWh" :> <<4, 342, 2, "kWh", "F32">>
      @@ "imp_kWh" :> <<4, 72, 2, "kWh", "F32">>
      @@ "exp_kWh" :> <<4, 74, 2, "kWh", "F32">>
      @@ "power" :> <<4, 52, 2, "W", "F32">>
      @@ "L1A" :> <<4, 6, 2, "A", "F32">>
      @@ "L2A" :> <<4, 8, 2, "A", "F32">>
      @@ "L3A" :> <<4, 10, 2, "A", "F32">>
      @@ "L1V" :> <<4, 0, 2, "V", "F32">>
      @@ "L2V" :> <<4, 2, 2, "V", "F32">>
      @@ "L3V" :> <<4, 4, 2, "V", "F32">>
      @@ "Totpf" :> <<4, 62, 2, "", "F32">>
      @@ "TotHz" :> <<4, 70, 2, "Hz", "F32">>
      @@ "Serial_no" :> <<3, 64512, 2, "(integer)", "U32">>
      @@ "Serial_no_bin" :> <<3, 64512, 2, "(binary)", "bin">>
      @@ "Serial_no_hex" :> <<3, 64512, 2, "(hex)", "hex">>)
  @@ "EM115" :> (
         "kWh" :> <<4, 362, 2, "kWh", "F32">>
      @@ "imp_kWh" :> <<4, 352, 2, "kWh", "F32">>
      @@ "exp_kWh" :> <<4, 358, 2, "kWh", "F32">>
      @@ "power" :> <<4, 8, 2, "W", "F32">>
      @@ "L1A" :> <<4, 6, 2, "A", "F32">>
      @@ "L2A" :> <<4, 0, 2, "A", "F32">>
      @@ "L3A" :> <<4, 0, 2, "A", "F32">>
      @@ "L1V" :> <<4, 2, 2, "V", "F32">>
      @@ "L2V" :> <<4, 0, 2, "V", "F32">>
      @@ "L3V" :> <<4, 0, 2, "V", "F32">>
      @@ "Totpf" :> <<4, 14, 2, "", "F32">>
      @@ "TotHz" :> <<4, 4, 2, "Hz", "F32">>
      @@ "Serial_no" :> <<4, 65280, 2, "(integer)", "U32">>
      @@ "Serial_no_bin" :> <<4, 65280, 2, "(binary)", "bin">>
      @@ "Serial_no_hex" :> <<4, 65280, 2, "(hex)", "hex">>
      @@ "relay_state" :> <<4, 1382, 1, "(binary)", "bin">>
      @@ "set_relay_state" :> <<16, 1382, 1, "(binary)", "bin">>)
  @@ "EM737" :> (
         "kWh" :> <<4, 1792, 2, "kWh", "F32">>
      @@ "imp_kWh" :> <<4, 2048, 2, "kWh", "F32">>
      @@ "exp_kWh" :> <<4, 2304, 2, "kWh", "F32">>
      @@ "power" :> <<4, 38, 2, "W", "F32">>
      @@ "L1A" :> <<4, 22, 2, "A", "F32">>
      @@ "L2A" :> <<4, 24, 2, "A", "F32">>
      @@ "L3A" :> <<4, 26, 2, "A", "F32">>
      @@ "L1V" :> <<4, 16, 2, "V", "F32">>
      @@ "L2V" :> <<4, 18, 2, "V", "F32">>
      @@ "L3V" :> <<4, 20, 2, "V", "F32">>
      @@ "Totpf" :> <<4, 62, 2, "", "F32">>
      @@ "TotHz" :> <<4, 64, 2, "Hz", "F32">>
      @@ "Serial_no" :> <<4, 65280, 2, "(integer)", "U32">>
      @@ "Serial_no_bin" :> <<4, 65280, 2, "(binary)", "bin">>
      @@ "Serial_no_hex" :> <<4, 65280, 2, "(hex)", "hex">>
      @@ "relay_state" :> <<4, 1382, 1, "(binary)", "bin">>)

\* meter_setuptool.py line 208, meter_setuptools.py line 157
setuptool_mregs == setuptool_meter_regs[args.meter_model]
setuptools_mregs == setuptools_meter_regs[args.meter_model]

\* connect(args) of both variants (lines 63-84, lines 58-79): the session
\* it opens, always at args.baudrate
variant_connect ==
  IF args.transport = "host"
  THEN [kind |-> "tcp", baudrate |-> 0, open |-> TRUE, closes |-> 0]
  ELSE [kind |-> "serial", baudrate |-> args.baudrate, open |-> TRUE, closes |-> 0]

\* modbus_req of both variants, 'if not client: client = connect(args)'
\* (lines 97-98, lines 96-97): the sessions after the test and the session
\* the request goes out on; c = 0 is the client None
ReqSessions(c) == IF c = 0 THEN Append(sessions, variant_connect) ELSE sessions
ReqClient(c) == IF c = 0 THEN Len(sessions) + 1 ELSE c

\* the read modbus_req puts on the bus for a register of catalog m
\* (lines 213-217, lines 162-166)
CatalogRead(m, register_name, c) ==
  LET d == m[register_name]
  IN [op |-> IF d[1] = 3 THEN "read_holding_registers" ELSE "read_input_registers",
      reg |-> register_name, address |-> d[2], count |-> d[3],
      values |-> <<>>, unit |-> args.unit_id, client |-> ReqClient(c)]

\* the write modbus_req puts on the bus (line 222, lines 170 and 174)
CatalogWrite(m, register_name, values, c) ==
  [op |-> "write_registers", reg |-> register_name, address |-> m[register_name][2],
   count |-> 0, values |-> values, unit |-> args.unit_id, client |-> ReqClient(c)]

\* the reads of a loop over names: a name absent from the catalog costs no
\* request (lines 209-211, lines 158-160)
RECURSIVE CatalogReads(_, _, _)
CatalogReads(m, names, c) ==
  IF names = <<>> THEN <<>>
  ELSE (IF Head(names) \in DOMAIN m THEN <<CatalogRead(m, Head(names), c)>> ELSE <<>>)
       \o CatalogReads(m, Tail(names), c)

\* reg_names of modbus_req_alot (line 260, line 210)
variant_reg_names ==
  <<"kWh", "imp_kWh", "power", "L1A", "L2A", "L3A", "L1V", "L2V", "L3V",
    "Totpf", "TotHz", "Serial_no", "Serial_no_bin", "Serial_no_hex", "relay_state">>

\* float_value < n / 128 and float_value > n / 128 as Python compares a
\* float with a number, for 0 < n < 2^24; a NaN compares false
FloatBelow(float_value, n) ==
  LET sh == float_value.exp + 7
  IN IF float_value.kind = "nan" THEN FALSE
     ELSE IF float_value.kind = "inf" THEN float_value.neg
     ELSE IF float_value.neg \/ float_value.sig = 0 THEN TRUE
     ELSE IF sh >= 24 THEN FALSE
     ELSE IF sh >= 0 THEN float_value.sig <= (n - 1) \div Pow2(sh)
     ELSE IF sh < -30 THEN TRUE
     ELSE float_value.sig \div Pow2(-sh) < n

FloatAbove(float_value, n) ==
  LET sh == float_value.exp + 7
  IN IF float_value.kind = "nan" THEN FALSE
     ELSE IF float_value.kind = "inf" THEN ~float_value.neg
     ELSE IF float_value.neg \/ float_value.sig = 0 THEN FALSE
     ELSE IF sh >= 24 THEN TRUE
     ELSE IF sh >= 0 THEN float_value.sig > n \div Pow2(sh)
     ELSE IF sh < -30 THEN FALSE
     ELSE \/ float_value.sig \div Pow2(-sh) > n
          \/ /\ float_value.sig \div Pow2(-sh) = n
             /\ float_value.sig % Pow2(-sh) # 0

\* the bounds of both ends excluded from the accepted voltages
setuptool_voltage_ok_exclusive(v) ==
  ~(\/ ~FloatAbove(v, 13248)
    \/ ~FloatBelow(v, 16192) /\ ~FloatAbove(v, 26496)
    \/ ~FloatBelow(v, 32384))

\* meter_setuptool.py voltage_test, lines 340-344.  As doubles
\* 115*(1-0.1) = 103.5, 115*(1+0.1) = 126.50000000000001, 230*(1-0.1) = 207.0
\* and 230*(1+0.1) = 253.00000000000003; no float32 value lies between
\* 126.5 and 126.50000000000001 or between 253.0 and 253.00000000000003,
\* so on a float32 reading the comparisons are those with 103.5, 126.5,
\* 207 and 253 (13248, 16192, 26496, 32384 in 1/128 V).  'and' binds
\* tighter than 'or'.
setuptool_voltage_ok(v) ==
  ~(\/ FloatBelow(v, 13248)
    \/ FloatAbove(v, 16192) /\ FloatBelow(v, 26496)
    \/ FloatAbove(v, 32384))

\* meter_setuptools.py voltage_test, lines 232-236: the same expression
setuptools_voltage_ok(v) ==
  ~(\/ FloatBelow(v, 13248)
    \/ FloatAbove(v, 16192) /\ FloatBelow(v, 26496)
    \/ FloatAbove(v, 32384))

\* no voltage read yet
NoFloat == [kind |-> "none", neg |-> FALSE, sig |-> 0, exp |-> 0]

\* L1V register pairs the meter may answer: 0.0, 50.0, the float32 below
\* 103.5, 103.5, 115.0, 126.5, the float32 above 126.5, 170.0, the float32
\* below 207.0, 207.0, 230.0, 253.0, the float32 above 253.0, 300.0,
\* -120.0, +inf, -inf and a NaN
VariantVoltageRegs ==
  {<<0, 0>>, <<16968, 0>>, <<17102, 65535>>, <<17103, 0>>, <<17126, 0>>,
   <<17149, 0>>, <<17149, 1>>, <<17194, 0>>, <<17230, 65535>>, <<17231, 0>>,
   <<17254, 0>>, <<17277, 0>>, <<17277, 1>>, <<17302, 0>>, <<49904, 0>>,
   <<32640, 0>>, <<65408, 0>>, <<32704, 0>>}

\* serial-number register pairs: 0, 0x12345678, 0x7FFFFFFF
VariantSerialRegs == {<<0, 0>>, <<4660, 22136>>, <<32767, 65535>>}

\* the parsed command line of either file.  meter_setuptool.py: lines
\* 410-426, --set-relay defaults to False; the --set-* options other than
\* --set-relay and --get-unit-id, --get-serial-number lead to no operation
\* in its main and are left out.  meter_setuptools.py: lines 252-264,
\* --set-relay defaults to None; --new-baud-rate and --new-unit-id are read
\* by nothing and are left out.
VariantArgsSet ==
  [prog : {"meter_setuptool.py"},
   meter_model : {"EM115", "EM737", "SDM72", "SDM120", "SDM230", "SDM630"},
   transport : {"serial", "host", "none"},
   baudrate : {9600}, unit_id : {1},
   curious : BOOLEAN, read_relay : BOOLEAN,
   set_relay : {"False", "on", "off", "auto", "0", "1"},
   get_baudrate : BOOLEAN]
  \cup
  [prog : {"meter_setuptools.py"},
   meter_model : {"EM115", "EM737", "Eastron"},
   transport : {"serial", "host", "none"},
   baudrate : {9600}, unit_id : {1},
   curious : BOOLEAN, read_relay : BOOLEAN,
   set_relay : {"None", "on", "off"},
   get_baudrate : {FALSE}]

InitVariant ==
  /\ args \in VariantArgsSet
  /\ pc = (IF args.prog = "meter_setuptool.py" THEN "setuptool_main" ELSE "setuptools_main")
  /\ status = "running"
  /\ fatal = ""
  /\ bus = <<>>
  /\ sessions = <<>>
  /\ client = 0
  /\ dev_relay \in (IF args.meter_model \in {"EM115", "EM737"} THEN RelayWords ELSE {0})
  /\ voltage = NoFloat
  /\ set_state = "None"
  /\ cur_state = "None"
  /\ serial_no = -1
  /\ key = -1
  /\ relay_result = "None"
  /\ baudrate = -1
  /\ read_only = FALSE
  /\ unit_id = 0
  /\ depth = 0
  /\ req = NoReq
  /\ reading = NoReading
  /\ arg = NoArg
  /\ result = <<>>

\* what no action of the older variants touches
variantFrame == <<args, reqVars, codecVars, read_only, unitVars>>

-----------------------------------------------------------------------------
(* meter_setuptool.py: main, lines 404-461, and what it calls.              *)

\* main, lines 439-458: the order of the requested operations
setuptool_AfterSetRelay ==
  IF args.get_baudrate THEN "setuptool_get_baudrate" ELSE "setuptool_close"
setuptool_AfterReadRelay ==
  IF args.set_relay # "False" THEN "setuptool_set_relay" ELSE setuptool_AfterSetRelay
setuptool_AfterCurious ==
  IF args.read_relay THEN "setuptool_read_relay" ELSE setuptool_AfterReadRelay
setuptool_AfterVoltage ==
  IF args.curious THEN "setuptool_modbus_req_alot" ELSE setuptool_AfterCurious

\* main, lines 427-434: refuse a run without transport, else connect
setuptool_main ==
  /\ pc = "setuptool_main"
  /\ IF args.transport = "none"
     THEN /\ Exit1("no_transport")
          /\ UNCHANGED sessionVars
     ELSE /\ sessions' = Append(sessions, variant_connect)
          /\ client' = Len(sessions) + 1
          /\ pc' = "setuptool_voltage_test"
          /\ UNCHANGED <<status, fatal>>
  /\ UNCHANGED <<variantFrame, bus, dev_relay, voltage, relayVars, baudrate>>

\* voltage_test, lines 333-351
setuptool_voltage_test ==
  /\ pc = "setuptool_voltage_test"
  /\ bus' = Append(bus, CatalogRead(setuptool_mregs, "L1V", client))
  /\ \/ /\ Exit1("transport_error")
        /\ UNCHANGED voltage
     \/ \E regs \in VariantVoltageRegs :
          /\ voltage' = ieee754(regs)
          /\ IF setuptool_voltage_ok(ieee754(regs))
             THEN /\ pc' = setuptool_AfterVoltage
                  /\ UNCHANGED <<status, fatal>>
             ELSE Exit1("voltage_out_of_range")
  /\ UNCHANGED <<variantFrame, sessionVars, dev_relay, relayVars, baudrate>>

\* modbus_req_alot, lines 258-268: every read is answered, or the n-th one
\* comes back as an error and ends the run
setuptool_modbus_req_alot ==
  /\ pc = "setuptool_modbus_req_alot"
  /\ LET reads == CatalogReads(setuptool_mregs, variant_reg_names, client)
     IN \/ /\ bus' = bus \o reads
           /\ pc' = setuptool_AfterCurious
           /\ UNCHANGED <<status, fatal>>
        \/ \E n \in 1..Len(reads) :
             /\ bus' = bus \o SubSeq(reads, 1, n)
             /\ Exit1("transport_error")
  /\ UNCHANGED <<variantFrame, sessionVars, dev_relay, voltage, relayVars, baudrate>>

\* get_relay_state, lines 273-278, on the value read: "on", "off", or
\* "unknown" where the source exits
setuptool_get_relay_state(value) ==
  IF value \notin {"1010101010101010", "0101010101010101"} THEN "unknown"
  ELSE IF value = "0101010101010101" THEN "on" ELSE "off"

\* relay_state, lines 283-286: the state asked for ("None" for None)
setuptool_set_state(set_state_arg) ==
  IF set_state_arg = "0" THEN "off"
  ELSE IF set_state_arg = "1" THEN "on"
  ELSE set_state_arg

\* relay_state, lines 299 and 326: the client handed to get_relay_state is
\* None (0)
setuptool_relay_read_client == 0

\* relay_state returns r to main (lines 445, 449): its locals are gone
setuptool_return(r, next) ==
  /\ relay_result' = r
  /\ set_state' = "None"
  /\ cur_state' = "None"
  /\ serial_no' = -1
  /\ key' = -1
  /\ pc' = next
  /\ UNCHANGED <<status, fatal>>

\* relay_state, lines 280-304, called without set_state for --read-relay
\* (line 445) and with args.set_relay for --set-relay (line 449): the
\* checks, the read of the current state, the return if it is the state
\* asked for
setuptool_relay_state ==
  /\ pc \in {"setuptool_read_relay", "setuptool_set_relay"}
  /\ LET s == IF pc = "setuptool_read_relay" THEN "None"
              ELSE setuptool_set_state(args.set_relay)
         next == IF pc = "setuptool_read_relay" THEN setuptool_AfterReadRelay
                 ELSE setuptool_AfterSetRelay
     IN IF Prefix(args.meter_model, 2) # "EM"
        THEN /\ Exit1("relay_unsupported_model")
             /\ UNCHANGED <<bus, sessions, relayVars>>
        ELSE IF s \notin {"None", "on", "off", "auto"}
        THEN /\ Exit1("relay_unsupported_state")
             /\ UNCHANGED <<bus, sessions, relayVars>>
        ELSE /\ sessions' = ReqSessions(setuptool_relay_read_client)
             /\ bus' = Append(bus, CatalogRead(setuptool_mregs, "relay_state",
                                               setuptool_relay_read_client))
             /\ \/ /\ Exit1("transport_error")
                   /\ UNCHANGED relayVars
                \/ LET cur == setuptool_get_relay_state(binary(<<dev_relay>>))
                   IN IF cur = "unknown"
                      THEN /\ Exit1("relay_state_unknown")
                           /\ UNCHANGED relayVars
                      ELSE IF s = cur
                      THEN setuptool_return(cur, next)
                      ELSE /\ set_state' = s
                           /\ cur_state' = cur
                           /\ pc' = "setuptool_relay_state_serial"
                           /\ UNCHANGED <<status, fatal, serial_no, key, relay_result>>
  /\ UNCHANGED <<variantFrame, client, dev_relay, voltage, baudrate>>

\* relay_state, lines 306-317: read the serial number, compute the key,
\* return None if no state was asked for
setuptool_relay_state_serial ==
  /\ pc = "setuptool_relay_state_serial"
  /\ sessions' = ReqSessions(client)
  /\ bus' = Append(bus, CatalogRead(setuptool_mregs, "Serial_no", client))
  /\ \/ /\ Exit1("transport_error")
        /\ UNCHANGED relayVars
     \/ \E regs \in VariantSerialRegs :
          IF set_state = "None"
          THEN setuptool_return("None", setuptool_AfterReadRelay)
          ELSE /\ serial_no' = u32(regs)
               /\ key' = fineco_generate_key(u32(regs))
               /\ pc' = "setuptool_relay_state_set"
               /\ UNCHANGED <<status, fatal, set_state, cur_state, relay_result>>
  /\ UNCHANGED <<variantFrame, client, dev_relay, voltage, baudrate>>

\* relay_state, lines 319-323: write [key, state_value]; the meter takes
\* the new state, keeps the old one, or settles in another one
setuptool_relay_state_set ==
  /\ pc = "setuptool_relay_state_set"
  /\ sessions' = ReqSessions(client)
  /\ bus' = Append(bus, CatalogWrite(setuptool_mregs, "set_relay_state",
                                     <<key, state_value_dict[set_state]>>, client))
  /\ \/ /\ Exit1("transport_error")
        /\ UNCHANGED dev_relay
     \/ /\ dev_relay' \in RelayWords
        /\ pc' = "setuptool_relay_state_confirm"
        /\ UNCHANGED <<status, fatal>>
  /\ UNCHANGED <<variantFrame, client, voltage, relayVars, baudrate>>

\* relay_state, lines 325-331: read the state again, warn if it is not the
\* one asked for, return it
setuptool_relay_state_confirm ==
  /\ pc = "setuptool_relay_state_confirm"
  /\ sessions' = ReqSessions(setuptool_relay_read_client)
  /\ bus' = Append(bus, CatalogRead(setuptool_mregs, "relay_state",
                                    setuptool_relay_read_client))
  /\ \/ /\ Exit1("transport_error")
        /\ UNCHANGED relayVars
     \/ LET cur == setuptool_get_relay_state(binary(<<dev_relay>>))
        IN IF cur = "unknown"
           THEN /\ Exit1("relay_state_unknown")
                /\ UNCHANGED relayVars
           ELSE setuptool_return(cur, setuptool_AfterSetRelay)
  /\ UNCHANGED <<variantFrame, client, dev_relay, voltage, baudrate>>

\* get_baudrate, lines 353-390: every model of the choices is a Fineco
\* (EM) or an Eastron (SDM) one; the register is read and, for Eastron
\* meters, mapped
setuptool_get_baudrate ==
  /\ pc = "setuptool_get_baudrate"
  /\ bus' = Append(bus, CatalogRead(setuptool_mregs, "baudrate", client))
  /\ \/ /\ Exit1("transport_error")
        /\ UNCHANGED baudrate
     \/ \E regs \in BaudrateRegs(setuptool_mregs["baudrate"][5]) :
          LET value == IF Prefix(args.meter_model, 3) = "SDM"
                       THEN IntOfFloat(Units128(ieee754(regs)))
                       ELSE u16(regs)
          IN IF Prefix(args.meter_model, 3) = "SDM" /\ value \notin DOMAIN baudrate_dict
             THEN /\ Exit1("baudrate_unmappable")
                  /\ UNCHANGED baudrate
             ELSE /\ baudrate' = IF Prefix(args.meter_model, 3) = "SDM"
                                 THEN baudrate_dict[value] ELSE value
                  /\ pc' = "setuptool_close"
                  /\ UNCHANGED <<status, fatal>>
  /\ UNCHANGED <<variantFrame, sessionVars, dev_relay, voltage, relayVars>>

\* main, line 461: client.close() and the normal end of the run
setuptool_close ==
  /\ pc = "setuptool_close"
  /\ sessions' = Close(sessions, client)
  /\ status' = "exit0"
  /\ pc' = "done"
  /\ UNCHANGED <<variantFrame, fatal, bus, client, dev_relay, voltage, relayVars, baudrate>>

-----------------------------------------------------------------------------
(* meter_setuptools.py: main, lines 246-284, and what it calls.             *)

\* main, lines 265-272
setuptools_main ==
  /\ pc = "setuptools_main"
  /\ IF args.transport = "none"
     THEN /\ Exit1("no_transport")
          /\ UNCHANGED sessionVars
     ELSE /\ sessions' = Append(sessions, variant_connect)
          /\ client' = Len(sessions) + 1
          /\ pc' = "setuptools_voltage_test"
          /\ UNCHANGED <<status, fatal>>
  /\ UNCHANGED <<variantFrame, bus, dev_relay, voltage, relayVars, baudrate>>

\* voltage_test, lines 225-242
setuptools_voltage_test ==
  /\ pc = "setuptools_voltage_test"
  /\ bus' = Append(bus, CatalogRead(setuptools_mregs, "L1V", client))
  /\ \/ /\ Exit1("transport_error")
        /\ UNCHANGED voltage
     \/ \E regs \in VariantVoltageRegs :
          /\ voltage' = ieee754(regs)
          /\ IF setuptools_voltage_ok(ieee754(regs))
             THEN /\ pc' = IF args.curious THEN "setuptools_modbus_req_alot"
                           ELSE "setuptools_set_relay_state"
                  /\ UNCHANGED <<status, fatal>>
             ELSE Exit1("voltage_out_of_range")
  /\ UNCHANGED <<variantFrame, sessionVars, dev_relay, relayVars, baudrate>>

\* modbus_req_alot, lines 208-223: the reads of the names, then for the
\* Fineco models the serial number once more and its key
setuptools_modbus_req_alot ==
  /\ pc = "setuptools_modbus_req_alot"
  /\ LET fineco == args.meter_model \in {"EM115", "EM737"}
         reads == CatalogReads(setuptools_mregs,
                               variant_reg_names
                                 \o (IF fineco THEN <<"Serial_no">> ELSE <<>>),
                               client)
     IN \/ \E regs \in VariantSerialRegs :
             /\ bus' = bus \o reads
             /\ serial_no' = IF fineco THEN u32(regs) ELSE serial_no
             /\ key' = IF fineco THEN fineco_generate_key(u32(regs)) ELSE key
             /\ pc' = "setuptools_set_relay_state"
             /\ UNCHANGED <<status, fatal>>
        \/ \E n \in 1..Len(reads) :
             /\ bus' = bus \o SubSeq(reads, 1, n)
             /\ Exit1("transport_error")
             /\ UNCHANGED <<serial_no, key>>
  /\ UNCHANGED <<variantFrame, sessionVars, dev_relay, voltage, set_state,
                 cur_state, relay_result, baudrate>>

\* modbus_req, lines 169-174: the two values written one after the other
\* to a register of function code 16
setuptools_written_values == <<25973, 47818>>

\* main, line 281, and modbus_req, lines 157-206: modbus_req(args,
\* 'set_relay_state') is called in every run.  A model without the
\* register gives the reading 'Not supported for this model'; for the
\* others the two writes go out, and only the answer to the second one is
\* examined
setuptools_set_relay_state ==
  /\ pc = "setuptools_set_relay_state"
  /\ IF "set_relay_state" \notin DOMAIN setuptools_mregs
     THEN /\ pc' = "setuptools_close"
          /\ UNCHANGED <<status, fatal, bus, dev_relay>>
     ELSE /\ bus' = bus \o [i \in 1..Len(setuptools_written_values) |->
                              CatalogWrite(setuptools_mregs, "set_relay_state",
                                           <<setuptools_written_values[i]>>, client)]
          /\ dev_relay' \in RelayWords
          /\ \/ Exit1("transport_error")
             \/ /\ pc' = "setuptools_close"
                /\ UNCHANGED <<status, fatal>>
  /\ UNCHANGED <<variantFrame, sessionVars, voltage, relayVars, baudrate>>

\* main, line 284: client.close() and the normal end of the run
setuptools_close ==
  /\ pc = "setuptools_close"
  /\ sessions' = Close(sessions, client)
  /\ status' = "exit0"
  /\ pc' = "done"
  /\ UNCHANGED <<variantFrame, fatal, bus, client, dev_relay, voltage, relayVars, baudrate>>

NextVariant ==
  \/ setuptool_main
  \/ setuptool_voltage_test
  \/ setuptool_modbus_req_alot
  \/ setuptool_relay_state
  \/ setuptool_relay_state_serial
  \/ setuptool_relay_state_set
  \/ setuptool_relay_state_confirm
  \/ setuptool_get_baudrate
  \/ setuptool_close
  \/ setuptools_main
  \/ setuptools_voltage_test
  \/ setuptools_modbus_req_alot
  \/ setuptools_set_relay_state
  \/ setuptools_close

SpecVariant == InitVariant /\ [][NextVariant]_vars


-----------------------------------------------------------------------------
(* Claims about the older variants.                                         *)

\* C27: in meter_setuptool.py every bus request issued while reading or
\* setting the relay state (the reads of relay_state, the read of Serial_no
\* and the write to set_relay_state) goes out on the one session main
\* opened, and relay_state opens no further session.
C27_RelayOnMainSession ==
  args.prog = "meter_setuptool.py" =>
    /\ Len(sessions) <= 1
    /\ \A i \in 1..Len(bus) :
         bus[i].reg \in {"relay_state", "Serial_no", "set_relay_state"}
           => bus[i].client = 1

\* a pair of register words before or equal to another; for float32 values
\* that are not negative the order of the values is the order of their bit
\* patterns
WordsLeq(a, b) == a[1] < b[1] \/ (a[1] = b[1] /\ a[2] <= b[2])

\* 103.5 <= v <= 126.5 or 207 <= v <= 253 on the words of v: 103.5 is
\* <<17103, 0>>, 126.5 <<17149, 0>>, 207.0 <<17231, 0>>, 253.0 <<17277, 0>>
InBands(v) ==
  LET w == reverse_ieee754(v)
  IN /\ w[1] < 32768
     /\ \/ WordsLeq(<<17103, 0>>, w) /\ WordsLeq(w, <<17149, 0>>)
        \/ WordsLeq(<<17231, 0>>, w) /\ WordsLeq(w, <<17277, 0>>)

C30_NoWriteWithoutSetRelay ==
  (args.prog = "meter_setuptools.py" /\ args.set_relay = "None") =>
    \A i \in 1..Len(bus) : ~IsWrite(bus[i])

====
